---- MODULE Spec2Model ----
(***************************************************************************)
(* State-machine model of the task planner (class TaskTODOPlanner).        *)
(*                                                                         *)
(* The task store, the lifecycle handlers and the persistence adapter are  *)
(* taken from the pool-aware planner (src/unnamed/part_000), as are the    *)
(* remote sync engine (class GitHubSync) and the pull and push handlers;   *)
(* the additive merge and the sync handler are taken from src/script.js,   *)
(* the only file that implements them.                                     *)
(*                                                                         *)
(* Representation                                                          *)
(*   - a task is a record with the seven fields of the object literal;     *)
(*   - tasks.personal / tasks.work are functions whose DOMAIN is the set   *)
(*     of date keys that have a bucket (a JS object with own keys);        *)
(*   - tasks.pool is a sequence;                                           *)
(*   - sequences are 1-based: index i here is JS index i-1, and 0 stands   *)
(*     for the -1 / undefined of findIndex / find;                         *)
(*   - a date key is the number of the UTC day, null is Null;              *)
(*   - text is a sequence of one-character strings so that trim() is       *)
(*     computed and not assumed.                                           *)
(***************************************************************************)
EXTENDS Integers, Sequences, FiniteSets, TLC

VARIABLES
    tasks,        \* this.tasks
    stored,       \* localStorage['taskTodoPlanner']
    currentDate,  \* this.currentDate, an instant counted in ticks (UTC)
    tz,           \* offset of local time from UTC, in ticks (environment)
    now,          \* value Date.now() returns
    thrown,       \* TRUE iff the last handler ended with an uncaught TypeError
    cloudData,    \* the remote snapshot handed to mergeTaskData
    merges,       \* number of mergeTaskData calls made with cloudData
    token,        \* githubSync.token (localStorage['githubToken'])
    gistId,       \* githubSync.gistId (localStorage['todoGistId'])
    gists,        \* the documents held by the remote service, as listed
    flows,        \* the asynchronous calls: position, request, outcome
    busy          \* per button, TRUE iff it carries its busy class

vars == <<tasks, stored, currentDate, tz, now, thrown, cloudData, merges,
          token, gistId, gists, flows, busy>>

(***************************************************************************)
(* Bounds of the model.                                                    *)
(***************************************************************************)
MaxDay == 1        \* date keys 0..MaxDay
MaxClock == 2      \* Date.now() ranges over 1..MaxClock
MaxTasks == 2      \* tasks in the whole collection (lifecycle)
MaxLen == 2        \* length of a bucket drawn for the merge
MaxMerges == 2     \* merges of the same snapshot

TicksPerDay == 2   \* an instant is a number of half days since day 0, UTC
Today == 1         \* the day new Date() falls on when the planner is opened
Null == -1         \* null (date keys are >= 0)

Days == 0..MaxDay
Ids == 1..MaxClock
Instants == 0..((MaxDay + 1) * TicksPerDay - 1)
DatedCategories == {"personal", "work"}
Categories == {"personal", "work", "pool"}
Offsets == {-1, 1}

(***************************************************************************)
(* Text and String.prototype.trim                                          *)
(***************************************************************************)
RECURSIVE trimStart(_)
trimStart(s) ==
    IF s # <<>> /\ Head(s) = " " THEN trimStart(Tail(s)) ELSE s

RECURSIVE trimEnd(_)
trimEnd(s) ==
    IF s # <<>> /\ s[Len(s)] = " " THEN trimEnd(SubSeq(s, 1, Len(s) - 1)) ELSE s

trim(s) == trimEnd(trimStart(s))

Inputs == { <<" ">>, <<" ", "A", " ">> }

(***************************************************************************)
(* Dates                                                                   *)
(***************************************************************************)
\* date.toISOString().split('T')[0]: the day of the instant in UTC
formatDateKey(date) == date \div TicksPerDay

getDateKey == formatDateKey(currentDate)

\* new Date(year, month, day): midnight of that day in local time
localMidnight(day) == day * TicksPerDay - tz

\* d.setDate(d.getDate() + days)
setDate(date, days) == date + days * TicksPerDay

(***************************************************************************)
(* Array helpers                                                           *)
(***************************************************************************)
findIndex(ts, taskId) ==
    IF \E i \in 1..Len(ts) : ts[i].id = taskId
    THEN CHOOSE i \in 1..Len(ts) :
            /\ ts[i].id = taskId
            /\ \A j \in 1..(i - 1) : ts[j].id # taskId
    ELSE 0

\* ts.splice(i, 1)
splice(ts, i) == SubSeq(ts, 1, i - 1) \o SubSeq(ts, i + 1, Len(ts))

\* ts.splice(i, 0, t), i a 1-based position
insertAt(ts, i, t) == SubSeq(ts, 1, i - 1) \o <<t>> \o SubSeq(ts, i, Len(ts))

hasBucket(T, category, dateKey) == dateKey \in DOMAIN T[category]

\* this.tasks[category][dateKey] = bucket
setBucket(T, category, dateKey, bucket) ==
    [T EXCEPT ![category] = (dateKey :> bucket) @@ @]

\* if (!this.tasks[category][dateKey]) this.tasks[category][dateKey] = []
ensureBucket(T, category, dateKey) ==
    IF hasBucket(T, category, dateKey) THEN T
    ELSE setBucket(T, category, dateKey, <<>>)

\* this.tasks[category][dateKey].push(task)
pushTask(T, category, dateKey, task) ==
    LET T1 == ensureBucket(T, category, dateKey)
    IN  setBucket(T1, category, dateKey, Append(T1[category][dateKey], task))

RECURSIVE sumLen(_, _)
sumLen(f, S) ==
    IF S = {} THEN 0
    ELSE LET d == CHOOSE x \in S : TRUE
         IN  Len(f[d]) + sumLen(f, S \ {d})

totalCount(T) ==
    sumLen(T.personal, DOMAIN T.personal) + sumLen(T.work, DOMAIN T.work)
        + Len(T.pool)

(***************************************************************************)
(* Persistence                                                             *)
(***************************************************************************)
\* The storage slot is <<>> when the key is absent and <<collection>> when
\* it holds the JSON text of a collection.  JSON.stringify keeps numbers,
\* strings, booleans, null, arrays and plain objects, which is all a
\* collection is made of.
noSlot == <<>>

saveTasks(T) == <<T>>

emptyCollection == [personal |-> <<>>, work |-> <<>>, pool |-> <<>>]

\* stored ? JSON.parse(stored) : { personal: {}, work: {}, pool: [] }
loadTasks(slot) == IF slot = noSlot THEN emptyCollection ELSE slot[1]

\* loadTasks of src/script.js:
\* stored ? JSON.parse(stored) : { personal: {}, work: {} }
loadTasksWithoutPool(slot) ==
    IF slot = noSlot THEN [personal |-> <<>>, work |-> <<>>] ELSE slot[1]

(***************************************************************************)
(* Outcomes of a handler                                                   *)
(***************************************************************************)
commit(T) ==
    /\ tasks' = T
    /\ stored' = saveTasks(T)
    /\ thrown' = FALSE

noop ==
    /\ thrown' = FALSE
    /\ UNCHANGED <<tasks, stored>>

typeError ==
    /\ thrown' = TRUE
    /\ UNCHANGED <<tasks, stored>>

(***************************************************************************)
(* Lifecycle handlers (src/unnamed/part_000).  Each definition is the      *)
(* whole handler: lookup, mutation, saveTasks.                             *)
(***************************************************************************)
newTask(id, text, originalDate) ==
    [ id |-> id, text |-> text, status |-> "pending", completed |-> FALSE,
      completedDate |-> Null, moved |-> FALSE, originalDate |-> originalDate ]

\* addTask storing input.value as typed, without trim()
addTaskKeepingBlanks(category, input) ==
    LET dateKey == getDateKey
    IN  IF trim(input) = <<>> THEN noop
        ELSE commit(pushTask(tasks, category, dateKey,
                             newTask(now, input, dateKey)))

addTask(category, input) ==
    LET text == trim(input)
        dateKey == getDateKey
    IN  IF text = <<>> THEN noop
        ELSE commit(pushTask(tasks, category, dateKey,
                             newTask(now, text, dateKey)))

addPoolTask(input) ==
    LET text == trim(input)
    IN  IF text = <<>> THEN noop
        ELSE commit([tasks EXCEPT !.pool = Append(@, newTask(now, text, Null))])

\* completePoolTask without originalDate: dateKey in the new task
completePoolTaskKeepingOriginalDate(taskId) ==
    LET poolTasks == tasks.pool
        taskIndex == findIndex(poolTasks, taskId)
        dateKey == getDateKey
    IN  IF taskIndex = 0 THEN noop
        ELSE LET task == poolTasks[taskIndex]
                 completedTask ==
                     [task EXCEPT !.completed = TRUE,
                                  !.status = "completed",
                                  !.completedDate = dateKey,
                                  !.moved = FALSE]
                 T1 == [tasks EXCEPT !.pool = splice(poolTasks, taskIndex)]
             IN  commit(pushTask(T1, "personal", dateKey, completedTask))

completePoolTask(taskId) ==
    LET poolTasks == tasks.pool
        taskIndex == findIndex(poolTasks, taskId)
        dateKey == getDateKey
    IN  IF taskIndex = 0 THEN noop
        ELSE LET task == poolTasks[taskIndex]
                 completedTask ==
                     [task EXCEPT !.completed = TRUE,
                                  !.status = "completed",
                                  !.completedDate = dateKey,
                                  !.originalDate = dateKey,
                                  !.moved = FALSE]
                 T1 == [tasks EXCEPT !.pool = splice(poolTasks, taskIndex)]
             IN  commit(pushTask(T1, "personal", dateKey, completedTask))

\* completeTask stamping the task's own originalDate as completedDate
completeTaskOnOriginalDate(category, taskId) ==
    IF category = "pool" THEN completePoolTask(taskId)
    ELSE LET dateKey == getDateKey
         IN  IF ~hasBucket(tasks, category, dateKey) THEN typeError
             ELSE LET ts == tasks[category][dateKey]
                      i == findIndex(ts, taskId)
                  IN  IF i = 0 THEN noop
                      ELSE commit(setBucket(tasks, category, dateKey,
                               [ts EXCEPT ![i] =
                                   [@ EXCEPT !.completed = TRUE,
                                             !.status = "completed",
                                             !.completedDate =
                                                 ts[i].originalDate]]))

completeTask(category, taskId) ==
    IF category = "pool" THEN completePoolTask(taskId)
    ELSE LET dateKey == getDateKey
         IN  IF ~hasBucket(tasks, category, dateKey) THEN typeError
             ELSE LET ts == tasks[category][dateKey]
                      i == findIndex(ts, taskId)
                  IN  IF i = 0 THEN noop
                      ELSE commit(setBucket(tasks, category, dateKey,
                               [ts EXCEPT ![i] =
                                   [@ EXCEPT !.completed = TRUE,
                                             !.status = "completed",
                                             !.completedDate = dateKey]]))

\* uncompleteTask without task.completedDate = null
uncompletedKeepingDate(task) ==
    [task EXCEPT !.completed = FALSE, !.status = "pending"]

\* the three assignments of uncompleteTask
uncompleted(task) ==
    [task EXCEPT !.completed = FALSE, !.status = "pending",
                 !.completedDate = Null]

uncompleteTask(category, taskId) ==
    IF category = "pool"
    THEN LET ts == tasks.pool
             i == findIndex(ts, taskId)
         IN  IF i = 0 THEN noop
             ELSE commit([tasks EXCEPT !.pool[i] = uncompleted(@)])
    ELSE LET dateKey == getDateKey
         IN  IF ~hasBucket(tasks, category, dateKey) THEN typeError
             ELSE LET ts == tasks[category][dateKey]
                      i == findIndex(ts, taskId)
                  IN  IF i = 0 THEN noop
                      ELSE commit(setBucket(tasks, category, dateKey,
                               [ts EXCEPT ![i] = uncompleted(@)]))

\* a toggle without the branch back: every task becomes in-progress
toggledOneWay(task) ==
    [task EXCEPT !.status = IF @ = "pending" \/ @ = "in-progress"
                            THEN "in-progress" ELSE @,
                 !.completed = FALSE]

\* the if / else-if on status followed by task.completed = false
toggled(task) ==
    [task EXCEPT !.status = IF @ = "in-progress" THEN "pending"
                            ELSE IF @ = "pending" THEN "in-progress"
                            ELSE @,
                 !.completed = FALSE]

toggleTaskInProgress(category, taskId) ==
    IF category = "pool"
    THEN LET ts == tasks.pool
             i == findIndex(ts, taskId)
         IN  IF i = 0 THEN noop
             ELSE commit([tasks EXCEPT !.pool[i] = toggled(@)])
    ELSE LET dateKey == getDateKey
         IN  IF ~hasBucket(tasks, category, dateKey) THEN typeError
             ELSE LET ts == tasks[category][dateKey]
                      i == findIndex(ts, taskId)
                  IN  IF i = 0 THEN noop
                      ELSE commit(setBucket(tasks, category, dateKey,
                               [ts EXCEPT ![i] = toggled(@)]))

\* editTask storing newText as passed, without trim()
editTaskKeepingBlanks(category, taskId, newText) ==
    IF category = "pool"
    THEN LET ts == tasks.pool
             i == findIndex(ts, taskId)
         IN  IF i = 0 \/ trim(newText) = <<>> THEN noop
             ELSE commit([tasks EXCEPT !.pool[i].text = newText])
    ELSE LET dateKey == getDateKey
         IN  IF ~hasBucket(tasks, category, dateKey) THEN typeError
             ELSE LET ts == tasks[category][dateKey]
                      i == findIndex(ts, taskId)
                  IN  IF i = 0 \/ trim(newText) = <<>> THEN noop
                      ELSE commit(setBucket(tasks, category, dateKey,
                               [ts EXCEPT ![i].text = newText]))

editTask(category, taskId, newText) ==
    IF category = "pool"
    THEN LET ts == tasks.pool
             i == findIndex(ts, taskId)
         IN  IF i = 0 \/ trim(newText) = <<>> THEN noop
             ELSE commit([tasks EXCEPT !.pool[i].text = trim(newText)])
    ELSE LET dateKey == getDateKey
         IN  IF ~hasBucket(tasks, category, dateKey) THEN typeError
             ELSE LET ts == tasks[category][dateKey]
                      i == findIndex(ts, taskId)
                  IN  IF i = 0 \/ trim(newText) = <<>> THEN noop
                      ELSE commit(setBucket(tasks, category, dateKey,
                               [ts EXCEPT ![i].text = trim(newText)]))

\* the tasks renderTasks shows for a tab:
\* this.tasks.pool || [] and this.tasks[currentTab]?.[dateKey] || []
rendered(category) ==
    IF category = "pool" THEN tasks.pool
    ELSE IF hasBucket(tasks, category, getDateKey)
         THEN tasks[category][getDateKey] ELSE <<>>

\* finishEdit of startEditTask, for the rendered task that was clicked:
\* input is the content of the text field when it loses the focus
finishEdit(category, taskId, input) ==
    LET currentText == rendered(category)[findIndex(rendered(category),
                                                    taskId)].text
        newText == trim(input)
    IN  IF newText # <<>> /\ newText # currentText
        THEN editTask(category, taskId, newText)
        ELSE noop

moveTaskToDate(category, taskId, daysOffset) ==
    LET dateKey == getDateKey
    IN  IF ~hasBucket(tasks, category, dateKey) THEN typeError
        ELSE LET ts == tasks[category][dateKey]
                 taskIndex == findIndex(ts, taskId)
             IN  IF taskIndex = 0 THEN noop
                 ELSE LET task == [ts[taskIndex] EXCEPT !.moved = TRUE]
                          T1 == setBucket(tasks, category, dateKey,
                                          [ts EXCEPT ![taskIndex] = task])
                          targetDateKey ==
                              formatDateKey(setDate(currentDate, daysOffset))
                          moved ==
                              [task EXCEPT !.id = now, !.moved = FALSE,
                                           !.originalDate = task.originalDate]
                      IN  commit(pushTask(T1, category, targetDateKey, moved))

\* moveTaskBetweenCategories without the splice of the source bucket
moveTaskBetweenCategoriesCopying(fromCategory, toCategory, taskId) ==
    LET dateKey == getDateKey
    IN  IF ~hasBucket(tasks, fromCategory, dateKey) THEN typeError
        ELSE LET fromTasks == tasks[fromCategory][dateKey]
                 taskIndex == findIndex(fromTasks, taskId)
             IN  IF taskIndex = 0 THEN noop
                 ELSE LET task == fromTasks[taskIndex]
                          moved == [task EXCEPT !.id = now, !.moved = FALSE]
                      IN  commit(pushTask(tasks, toCategory, dateKey, moved))

moveTaskBetweenCategories(fromCategory, toCategory, taskId) ==
    LET dateKey == getDateKey
    IN  IF ~hasBucket(tasks, fromCategory, dateKey) THEN typeError
        ELSE LET fromTasks == tasks[fromCategory][dateKey]
                 taskIndex == findIndex(fromTasks, taskId)
             IN  IF taskIndex = 0 THEN noop
                 ELSE LET task == fromTasks[taskIndex]
                          T1 == setBucket(tasks, fromCategory, dateKey,
                                          splice(fromTasks, taskIndex))
                          moved == [task EXCEPT !.id = now, !.moved = FALSE]
                      IN  commit(pushTask(T1, toCategory, dateKey, moved))

movePoolTaskToDate(targetCategory, taskId) ==
    LET poolTasks == tasks.pool
        taskIndex == findIndex(poolTasks, taskId)
        dateKey == getDateKey
    IN  IF taskIndex = 0 THEN noop
        ELSE LET task == poolTasks[taskIndex]
                 T1 == [tasks EXCEPT !.pool = splice(poolTasks, taskIndex)]
                 moved == [task EXCEPT !.id = now, !.originalDate = dateKey,
                                       !.moved = FALSE]
             IN  commit(pushTask(T1, targetCategory, dateKey, moved))

movePoolTaskToSpecificDate(taskId, targetDate) ==
    LET poolTasks == tasks.pool
        taskIndex == findIndex(poolTasks, taskId)
        targetDateKey == formatDateKey(targetDate)
    IN  IF taskIndex = 0 THEN noop
        ELSE LET task == poolTasks[taskIndex]
                 T1 == [tasks EXCEPT !.pool = splice(poolTasks, taskIndex)]
                 moved == [task EXCEPT !.id = now,
                                       !.originalDate = targetDateKey,
                                       !.moved = FALSE]
             IN  commit(pushTask(T1, "personal", targetDateKey, moved))

\* moveTaskToPool without the reset of a completed status
moveTaskToPoolKeepingStatus(fromCategory, taskId) ==
    LET dateKey == getDateKey
    IN  IF ~hasBucket(tasks, fromCategory, dateKey) THEN typeError
        ELSE LET fromTasks == tasks[fromCategory][dateKey]
                 taskIndex == findIndex(fromTasks, taskId)
             IN  IF taskIndex = 0 THEN noop
                 ELSE LET task == fromTasks[taskIndex]
                          T1 == setBucket(tasks, fromCategory, dateKey,
                                          splice(fromTasks, taskIndex))
                          moved ==
                              [task EXCEPT !.id = now,
                                           !.originalDate = Null,
                                           !.moved = FALSE,
                                           !.completed = FALSE,
                                           !.completedDate = Null]
                      IN  commit([T1 EXCEPT !.pool = Append(@, moved)])

\* moveTaskToPool marking the source as moved instead of removing it
moveTaskToPoolLeavingStub(fromCategory, taskId) ==
    LET dateKey == getDateKey
    IN  IF ~hasBucket(tasks, fromCategory, dateKey) THEN typeError
        ELSE LET fromTasks == tasks[fromCategory][dateKey]
                 taskIndex == findIndex(fromTasks, taskId)
             IN  IF taskIndex = 0 THEN noop
                 ELSE LET task == fromTasks[taskIndex]
                          T1 == setBucket(tasks, fromCategory, dateKey,
                                    [fromTasks EXCEPT ![taskIndex].moved = TRUE])
                          moved ==
                              [task EXCEPT
                                  !.id = now,
                                  !.originalDate = Null,
                                  !.moved = FALSE,
                                  !.completed = FALSE,
                                  !.status = IF task.status = "completed"
                                             THEN "pending" ELSE task.status,
                                  !.completedDate = Null]
                      IN  commit([T1 EXCEPT !.pool = Append(@, moved)])

moveTaskToPool(fromCategory, taskId) ==
    LET dateKey == getDateKey
    IN  IF ~hasBucket(tasks, fromCategory, dateKey) THEN typeError
        ELSE LET fromTasks == tasks[fromCategory][dateKey]
                 taskIndex == findIndex(fromTasks, taskId)
             IN  IF taskIndex = 0 THEN noop
                 ELSE LET task == fromTasks[taskIndex]
                          T1 == setBucket(tasks, fromCategory, dateKey,
                                          splice(fromTasks, taskIndex))
                          moved ==
                              [task EXCEPT
                                  !.id = now,
                                  !.originalDate = Null,
                                  !.moved = FALSE,
                                  !.completed = FALSE,
                                  !.status = IF task.status = "completed"
                                             THEN "pending" ELSE task.status,
                                  !.completedDate = Null]
                      IN  commit([T1 EXCEPT !.pool = Append(@, moved)])

deleteTask(category, taskId) ==
    IF category = "pool"
    THEN LET ts == tasks.pool
             taskIndex == findIndex(ts, taskId)
         IN  IF taskIndex = 0 THEN noop
             ELSE commit([tasks EXCEPT !.pool = splice(ts, taskIndex)])
    ELSE LET dateKey == getDateKey
         IN  IF ~hasBucket(tasks, category, dateKey) THEN typeError
             ELSE LET ts == tasks[category][dateKey]
                      taskIndex == findIndex(ts, taskId)
                  IN  IF taskIndex = 0 THEN noop
                      ELSE commit(setBucket(tasks, category, dateKey,
                                            splice(ts, taskIndex)))

\* reorderTasks without the second splice: the dragged task is not put back
reorderedLosingDragged(ts, draggedIndex, targetIndex, insertBefore) ==
    splice(ts, draggedIndex)

\* reorderTasks inserting at the target's index of before the removal
\* (splice puts an index past the end at the end)
reorderedWithoutShift(ts, draggedIndex, targetIndex, insertBefore) ==
    LET draggedTask == ts[draggedIndex]
        others == splice(ts, draggedIndex)
        insertIndex == IF insertBefore THEN targetIndex ELSE targetIndex + 1
    IN  insertAt(others,
                 IF insertIndex > Len(others) THEN Len(others) + 1
                 ELSE insertIndex,
                 draggedTask)

\* the splice / index arithmetic / splice of reorderTasks on one array
reordered(ts, draggedIndex, targetIndex, insertBefore) ==
    LET draggedTask == ts[draggedIndex]
        rest == splice(ts, draggedIndex)
        newTargetIndex == IF draggedIndex < targetIndex
                          THEN targetIndex - 1 ELSE targetIndex
        insertIndex == IF insertBefore THEN newTargetIndex
                       ELSE newTargetIndex + 1
    IN  insertAt(rest, insertIndex, draggedTask)

reorderTasks(category, draggedTaskId, targetTaskId, insertBefore) ==
    IF category # "pool" /\ ~hasBucket(tasks, category, getDateKey)
    THEN typeError
    ELSE LET ts == IF category = "pool" THEN tasks.pool
                   ELSE tasks[category][getDateKey]
             draggedIndex == findIndex(ts, draggedTaskId)
             targetIndex == findIndex(ts, targetTaskId)
         IN  IF draggedIndex # 0 /\ targetIndex # 0
                  /\ draggedIndex # targetIndex
             THEN LET ts2 == reordered(ts, draggedIndex, targetIndex,
                                       insertBefore)
                  IN  commit(IF category = "pool"
                             THEN [tasks EXCEPT !.pool = ts2]
                             ELSE setBucket(tasks, category, getDateKey, ts2))
             ELSE noop

(***************************************************************************)
(* Completion timing, as renderTasks styles a completed task               *)
(***************************************************************************)
\* completed-today / completed-future / completed-early; "none" when no
\* branch of the if / else-if chain applies
timing(task) ==
    IF task.completedDate = task.originalDate THEN "on-time"
    ELSE IF task.completedDate > task.originalDate THEN "late"
    ELSE IF task.completedDate < task.originalDate THEN "early"
    ELSE "none"

(***************************************************************************)
(* Navigation and clock                                                    *)
(***************************************************************************)
changeDate(days) ==
    /\ currentDate' = setDate(currentDate, days)
    /\ UNCHANGED <<tasks, stored, thrown>>

selectDate(date) ==
    /\ currentDate' = date
    /\ UNCHANGED <<tasks, stored, thrown>>

\* the millisecond clock moves on between two handlers
Tick ==
    /\ now < MaxClock
    /\ now' = now + 1
    /\ UNCHANGED <<tasks, stored, currentDate, tz, thrown, cloudData, merges,
                   token, gistId, gists, flows, busy>>

(***************************************************************************)
(* Merge of a remote snapshot (src/script.js).                             *)
(***************************************************************************)
\* a merge in which the remote task replaces the local task of the same id
RECURSIVE mergeBucketRemoteWins(_, _)
mergeBucketRemoteWins(localTasks, cloudTasks) ==
    IF cloudTasks = <<>> THEN localTasks
    ELSE LET cloudTask == Head(cloudTasks)
             i == findIndex(localTasks, cloudTask.id)
         IN  mergeBucketRemoteWins(
                 IF i # 0 THEN [localTasks EXCEPT ![i] = cloudTask]
                 ELSE Append(localTasks, cloudTask),
                 Tail(cloudTasks))

\* a merge without the existsLocally test
mergeBucketAppendingAll(localTasks, cloudTasks) == localTasks \o cloudTasks

\* cloudTasks.forEach(cloudTask => { if (!localTasks.some(...)) push })
RECURSIVE mergeBucket(_, _)
mergeBucket(localTasks, cloudTasks) ==
    IF cloudTasks = <<>> THEN localTasks
    ELSE LET cloudTask == Head(cloudTasks)
             existsLocally ==
                 \E i \in 1..Len(localTasks) : localTasks[i].id = cloudTask.id
         IN  mergeBucket(IF existsLocally THEN localTasks
                         ELSE Append(localTasks, cloudTask),
                         Tail(cloudTasks))

\* for (const date in cloudData[category]) on a date-keyed category
mergeCategory(localCat, cloudCat) ==
    [ date \in DOMAIN localCat \cup DOMAIN cloudCat |->
        IF date \notin DOMAIN cloudCat THEN localCat[date]
        ELSE IF date \notin DOMAIN localCat THEN cloudCat[date]
        ELSE mergeBucket(localCat[date], cloudCat[date]) ]

\* The same loop when the category is the pool array: the "dates" are the
\* array indices.  An index the local pool lacks adopts the remote task; an
\* index it has makes cloudTasks a task object, and cloudTasks.forEach is
\* not a function.
mergePool(localPool, cloudPool) ==
    IF cloudPool = <<>> THEN [pool |-> localPool, thrown |-> FALSE]
    ELSE IF localPool = <<>> THEN [pool |-> cloudPool, thrown |-> FALSE]
    ELSE [pool |-> localPool, thrown |-> TRUE]

\* for (const category in cloudData): personal, work, pool in key order
mergedTasks(T, C) ==
    LET p == mergePool(T.pool, C.pool)
    IN  [ tasks |-> [ personal |-> mergeCategory(T.personal, C.personal),
                      work |-> mergeCategory(T.work, C.work),
                      pool |-> p.pool ],
          thrown |-> p.thrown ]

\* saveTasks() is the statement after the loops: an exception skips it
mergeTaskData(C) ==
    LET r == mergedTasks(tasks, C)
    IN  /\ tasks' = r.tasks
        /\ thrown' = r.thrown
        /\ stored' = IF r.thrown THEN stored ELSE saveTasks(r.tasks)

(***************************************************************************)
(* Remote sync engine (class GitHubSync) and the flows that use it.        *)
(*                                                                         *)
(* A flow is one call of an async function.  It runs synchronously up to   *)
(* a fetch(), where it waits (req = "sent"); the service answers the       *)
(* request (req = "ok" / "failed"); the flow then resumes up to its next   *)
(* fetch() or its end.  Between two of these steps any other flow or       *)
(* handler can run.  A machine record m holds what a flow can change while *)
(* it runs: the collection, the storage slot, the cached identifier and    *)
(* the flow's own record fl.                                               *)
(***************************************************************************)
MaxFlows == 2      \* calls of async functions in one behaviour
MaxGists == 2      \* documents the remote service holds
MaxTokens == 1     \* credentials

\* the handlers behind the sync, download and upload buttons
Buttons == {"sync", "pull", "push"}

Flows == 1..MaxFlows
Tokens == 1..MaxTokens
GistIds == 1..MaxGists

Sentinel == "Todo App Data Backup"

\* files['todo-data.json'] of a document: absent, or a file whose content
\* is empty, is text that is no JSON, or is the JSON text of a collection
noFile == [kind |-> "none", data |-> emptyCollection]
emptyFile == [kind |-> "empty", data |-> emptyCollection]
textFile == [kind |-> "text", data |-> emptyCollection]

\* content: JSON.stringify(data, null, 2)
stringify(data) == [kind |-> "json", data |-> data]

noResp == [id |-> Null, file |-> noFile]

idleFlow ==
    [ kind |-> "none", op |-> "none", pc |-> "idle", req |-> "none",
      tok |-> Null, target |-> Null, body |-> noFile, resp |-> noResp,
      live |-> TRUE, data |-> emptyCollection,
      locate |-> "none", fetch |-> "none", publish |-> "none",
      ret |-> <<>>, note |-> "none", reqs |-> 0, trace |-> <<>>,
      edits |-> <<>> ]

noSync ==
    /\ token = Null
    /\ gistId = Null
    /\ gists = <<>>
    /\ flows = [f \in Flows |-> idleFlow]
    /\ busy = [b \in Buttons |-> FALSE]

\* await fetch(url, { headers: { Authorization: `token ${this.token}` } })
issue(m, pc, target, body) ==
    [m EXCEPT !.fl.pc = pc, !.fl.req = "sent", !.fl.tok = token,
              !.fl.target = target, !.fl.body = body, !.fl.reqs = @ + 1]

\* return after the notification, before the button is touched
returned(m, note) == [m EXCEPT !.fl.pc = "done", !.fl.note = note]

\* the end of a handler, with the kind of notification it shows:
\* finally { btn.classList.remove(...) }
finish(m, note) == [returned(m, note) EXCEPT !.busy[m.fl.kind] = FALSE]

\* btn.classList.add('syncing' / 'downloading' / 'uploading')
shown(m) == [m EXCEPT !.busy[m.fl.kind] = TRUE]

\* createOrUpdateGist has resolved ("ok") or rejected: what its caller does
publishEnd(m, outcome) ==
    LET m1 == [m EXCEPT !.fl.publish = outcome,
                        !.fl.trace = Append(@, "published")]
    IN  IF m.fl.kind = "publish" THEN [m1 EXCEPT !.fl.pc = "done"]
        ELSE finish(m1, IF outcome = "ok" THEN "success" ELSE "error")

\* createOrUpdateGist from gistData on: data is serialized now, and the
\* request is a PATCH of the cached document or a POST
sendWrite(m) ==
    LET body == stringify(IF m.fl.live THEN m.tasks ELSE m.fl.data)
        m1 == [m EXCEPT !.fl.trace = Append(@, "write")]
    IN  IF m.gistId # Null THEN issue(m1, "patch", m.gistId, body)
        ELSE issue(m1, "post", Null, body)

createOrUpdateGist(m) ==
    LET m1 == [m EXCEPT !.fl.op = "publish",
                        !.fl.trace = Append(@, "publish")]
    IN  IF token = Null THEN publishEnd(m1, "token-not-set")
        ELSE IF m1.gistId = Null THEN issue(m1, "list", Null, noFile)
        ELSE sendWrite(m1)

\* a handleSync that starts the upload before it merges the download
syncUploadingBeforeMerge(m, outcome, cloud) ==
    LET m1 == createOrUpdateGist(m)
        r == mergedTasks(m1.tasks, cloud)
    IN  IF outcome # "ok" THEN m1
        ELSE [m1 EXCEPT
                !.tasks = r.tasks,
                !.stored = IF r.thrown THEN m1.stored ELSE saveTasks(r.tasks),
                !.fl.trace = @ \o << "merge", IF r.thrown THEN "merge-threw"
                                              ELSE "merged" >>]

\* handleSync after the inner try / catch: the merge of a downloaded
\* snapshot (an exception of mergeTaskData is caught with the download's),
\* then the upload of this.tasks
syncAfterFetch(m, outcome, cloud) ==
    LET r == mergedTasks(m.tasks, cloud)
        m1 == IF outcome # "ok" THEN m
              ELSE [m EXCEPT
                      !.tasks = r.tasks,
                      !.stored = IF r.thrown THEN m.stored
                                 ELSE saveTasks(r.tasks),
                      !.fl.trace = @ \o << "merge",
                                           IF r.thrown THEN "merge-threw"
                                           ELSE "merged" >>]
    IN  createOrUpdateGist(m1)

\* a handleDownload that, like handleSync, goes on to upload when no
\* backup is found
pullUploadingWhenNotFound(m, outcome, cloud) ==
    IF outcome = "ok"
    THEN finish([m EXCEPT !.tasks = cloud, !.stored = saveTasks(cloud)],
                "success")
    ELSE IF outcome = "not-found" THEN createOrUpdateGist(m)
    ELSE finish(m, "error")

\* a handleDownload that merges the download into the local collection
pullMerging(m, outcome, cloud) ==
    LET merged == mergedTasks(m.tasks, cloud).tasks
    IN  IF outcome = "ok"
        THEN finish([m EXCEPT !.tasks = merged, !.stored = saveTasks(merged)],
                    "success")
        ELSE finish(m, IF outcome = "not-found" THEN "warning" ELSE "error")

\* handleDownload after downloadFromGist: replace and save, or notify
pullAfterFetch(m, outcome, cloud) ==
    IF outcome = "ok"
    THEN finish([m EXCEPT !.tasks = cloud, !.stored = saveTasks(cloud)],
                "success")
    ELSE finish(m, IF outcome = "not-found" THEN "warning" ELSE "error")

\* downloadFromGist has resolved with cloud ("ok") or rejected
fetchEnd(m, outcome, cloud) ==
    LET m1 == [m EXCEPT !.fl.fetch = outcome,
                        !.fl.trace = Append(@, "fetched")]
    IN  IF m.fl.kind = "fetch"
        THEN [m1 EXCEPT !.fl.pc = "done",
                        !.fl.ret = IF outcome = "ok" THEN <<cloud>> ELSE <<>>]
        ELSE IF m.fl.kind = "pull" THEN pullAfterFetch(m1, outcome, cloud)
        ELSE syncAfterFetch(m1, outcome, cloud)

\* downloadFromGist from the second test of this.gistId on
getRequest(m) ==
    IF m.gistId = Null THEN fetchEnd(m, "not-found", emptyCollection)
    ELSE issue(m, "get", m.gistId, noFile)

\* downloadFromGist without the test of this.token
downloadWithoutTokenTest(m) ==
    LET m1 == [m EXCEPT !.fl.op = "fetch", !.fl.trace = Append(@, "fetch")]
    IN  IF m1.gistId = Null THEN issue(m1, "list", Null, noFile)
        ELSE getRequest(m1)

downloadFromGist(m) ==
    LET m1 == [m EXCEPT !.fl.op = "fetch", !.fl.trace = Append(@, "fetch")]
    IN  IF token = Null THEN fetchEnd(m1, "token-not-set", emptyCollection)
        ELSE IF m1.gistId = Null THEN issue(m1, "list", Null, noFile)
        ELSE getRequest(m1)

\* findExistingGist called on its own
findExistingGist(m) ==
    LET m1 == [m EXCEPT !.fl.op = "locate"]
    IN  IF token = Null
        THEN [m1 EXCEPT !.fl.pc = "done", !.fl.locate = "token-not-set"]
        ELSE issue(m1, "list", Null, noFile)

\* the response has been consumed
answered(m) == [m EXCEPT !.fl.req = "none"]

\* findExistingGist after its fetch(): a document found is cached and
\* returned; none found, or any error, returns null
located(m) ==
    IF m.fl.req = "ok" /\ m.fl.resp.id # Null
    THEN [answered(m) EXCEPT
             !.gistId = m.fl.resp.id, !.fl.locate = "ok",
             !.fl.ret = IF m.fl.op = "locate" THEN <<m.fl.resp.id>> ELSE @]
    ELSE [answered(m) EXCEPT !.fl.locate = "ok"]

\* downloadFromGist without the test of fileContent: JSON.parse is given
\* the missing or empty content
downloadedWithoutContentTest(m) ==
    LET file == m.fl.resp.file
        m0 == answered(m)
    IN  IF m.fl.req # "ok" THEN fetchEnd(m0, "transport", emptyCollection)
        ELSE IF file.kind # "json" THEN fetchEnd(m0, "syntax", emptyCollection)
        ELSE fetchEnd(m0, "ok", file.data)

\* downloadFromGist after its fetch(): gist.files['todo-data.json']?.content
\* and JSON.parse
downloaded(m) ==
    LET file == m.fl.resp.file
        m0 == answered(m)
    IN  IF m.fl.req # "ok" THEN fetchEnd(m0, "transport", emptyCollection)
        ELSE IF file.kind \in {"none", "empty"}
        THEN fetchEnd(m0, "corrupt", emptyCollection)
        ELSE IF file.kind = "text" THEN fetchEnd(m0, "syntax", emptyCollection)
        ELSE fetchEnd(m0, "ok", file.data)

\* createOrUpdateGist after its fetch()
written(m) ==
    IF m.fl.req # "ok" THEN publishEnd(answered(m), "transport")
    ELSE publishEnd(IF m.gistId = Null
                    THEN [answered(m) EXCEPT !.gistId = m.fl.resp.id]
                    ELSE answered(m),
                    "ok")

\* the continuation of a flow whose request has been answered
resume(m) ==
    IF m.fl.pc = "list"
    THEN LET m1 == located(m)
         IN  IF m.fl.op = "locate" THEN [m1 EXCEPT !.fl.pc = "done"]
             ELSE IF m.fl.op = "fetch" THEN getRequest(m1)
             ELSE sendWrite(m1)
    ELSE IF m.fl.pc = "get" THEN downloaded(m)
    ELSE written(m)

\* a click on the sync / download / upload button, or a call of one of the
\* three methods of the engine
start(m, kind) ==
    LET m1 == [m EXCEPT !.fl.kind = kind]
    IN  IF kind \in Buttons /\ token = Null THEN returned(m1, "warning")
        ELSE IF kind \in {"sync", "pull"} THEN downloadFromGist(shown(m1))
        ELSE IF kind = "push" THEN createOrUpdateGist(shown(m1))
        ELSE IF kind = "fetch" THEN downloadFromGist(m1)
        ELSE IF kind = "publish" THEN createOrUpdateGist(m1)
        ELSE findExistingGist(m1)

\* a find that tests the description only
listedByLabel(docs, tok) ==
    LET hits == { i \in 1..Len(docs) :
                    /\ docs[i].owner = tok
                    /\ docs[i].description = Sentinel }
    IN  IF hits = {} THEN Null
        ELSE docs[CHOOSE i \in hits : \A j \in hits : i <= j].id

\* gists.find(gist => gist.description === 'Todo App Data Backup'
\*                    && gist.files['todo-data.json']) over the listing of
\* the documents of the credential: the id of the first match, or Null
listed(docs, tok) ==
    LET hits == { i \in 1..Len(docs) :
                    /\ docs[i].owner = tok
                    /\ docs[i].description = Sentinel
                    /\ docs[i].file.kind # "none" }
    IN  IF hits = {} THEN Null
        ELSE docs[CHOOSE i \in hits : \A j \in hits : i <= j].id

docIndex(docs, id) ==
    IF \E i \in 1..Len(docs) : docs[i].id = id
    THEN CHOOSE i \in 1..Len(docs) : docs[i].id = id
    ELSE 0

\* what the service does with the request of a flow: the response, and the
\* documents afterwards.  A request without a credential, for a document
\* that does not exist, or to change a document of another owner, is
\* answered with an error status.
served(docs, fl) ==
    LET i == docIndex(docs, fl.target)
        refused == [req |-> "failed", resp |-> noResp, gists |-> docs]
    IN  IF fl.tok = Null THEN refused
        ELSE IF fl.pc = "list"
        THEN [req |-> "ok", gists |-> docs,
              resp |-> [id |-> listed(docs, fl.tok), file |-> noFile]]
        ELSE IF fl.pc = "get"
        THEN IF i = 0 THEN refused
             ELSE [req |-> "ok", gists |-> docs,
                   resp |-> [id |-> fl.target, file |-> docs[i].file]]
        ELSE IF fl.pc = "patch"
        THEN IF i = 0 \/ docs[i].owner # fl.tok THEN refused
             ELSE [req |-> "ok",
                   resp |-> [id |-> fl.target, file |-> fl.body],
                   gists |-> [docs EXCEPT ![i].description = Sentinel,
                                          ![i].file = fl.body]]
        ELSE [req |-> "ok",
              resp |-> [id |-> Len(docs) + 1, file |-> fl.body],
              gists |-> Append(docs, [id |-> Len(docs) + 1, owner |-> fl.tok,
                                      description |-> Sentinel,
                                      file |-> fl.body])]

\* the machine flow f runs on, and the state it leaves
machine(f) ==
    [tasks |-> tasks, stored |-> stored, gistId |-> gistId, busy |-> busy,
     fl |-> flows[f]]

\* this.tasks = cloudData gives the planner a new object: a
\* createOrUpdateGist(this.tasks) that has not serialized its argument yet
\* goes on holding the old one
detached(fl, old) ==
    IF fl.op = "publish" /\ fl.pc = "list" /\ fl.live
    THEN [fl EXCEPT !.live = FALSE, !.data = old]
    ELSE fl

ran(f, m) ==
    LET replaced == m.fl.kind = "pull" /\ m.fl.fetch = "ok"
                        /\ m.fl.pc = "done" /\ flows[f].pc # "done"
    IN  /\ tasks' = m.tasks
        /\ stored' = m.stored
        /\ gistId' = m.gistId
        /\ busy' = m.busy
        /\ flows' = [g \in Flows |->
                       IF g = f THEN m.fl
                       ELSE IF replaced THEN detached(flows[g], tasks)
                       ELSE flows[g]]
        /\ UNCHANGED <<currentDate, tz, now, thrown, cloudData, merges,
                       token, gists>>

Start(f, kind) ==
    /\ flows[f].pc = "idle"
    /\ ran(f, start(machine(f), kind))

\* the service answers the request of flow f
Reply(f) ==
    /\ flows[f].req = "sent"
    /\ flows[f].pc = "post" => Len(gists) < MaxGists
    /\ LET r == served(gists, flows[f])
       IN  /\ gists' = r.gists
           /\ flows' = [flows EXCEPT ![f].req = r.req, ![f].resp = r.resp]
    /\ UNCHANGED <<tasks, stored, currentDate, tz, now, thrown, cloudData,
                   merges, token, gistId, busy>>

\* the request of flow f fails: a network error, or an error status
Fail(f) ==
    /\ flows[f].req = "sent"
    /\ flows' = [flows EXCEPT ![f].req = "failed", ![f].resp = noResp]
    /\ UNCHANGED <<tasks, stored, currentDate, tz, now, thrown, cloudData,
                   merges, token, gistId, gists, busy>>

Resume(f) ==
    /\ flows[f].req \in {"ok", "failed"}
    /\ ran(f, resume(machine(f)))

setToken(t) ==
    /\ token' = t
    /\ UNCHANGED <<tasks, stored, currentDate, tz, now, thrown, cloudData,
                   merges, gistId, gists, flows, busy>>

clearToken ==
    /\ token' = Null
    /\ gistId' = Null
    /\ UNCHANGED <<tasks, stored, currentDate, tz, now, thrown, cloudData,
                   merges, gists, flows, busy>>

(***************************************************************************)
(* Specification of the lifecycle: the handlers as the event listeners     *)
(* call them, from the state the constructor builds on empty storage.      *)
(*                                                                         *)
(* The category arguments are those the call sites can pass; the task id   *)
(* is any id, present in the addressed bucket or not, and a handler is     *)
(* not restricted to the tasks for which renderTasks shows its button.     *)
(* The planner is opened at local midnight in a zone at UTC (tz = 0), so   *)
(* that the viewed local day and its date key coincide.  The guards on     *)
(* totalCount and on Days / Instants keep the model finite.                *)
(***************************************************************************)
rest ==
    <<currentDate, tz, now, cloudData, merges, token, gistId, gists, flows,
      busy>>

Init ==
    /\ stored = noSlot
    /\ tasks = loadTasks(stored)
    /\ tz = 0
    /\ currentDate = localMidnight(Today)
    /\ now = 1
    /\ thrown = FALSE
    /\ cloudData = emptyCollection
    /\ merges = 0
    /\ noSync

AddTask ==
    \E category \in DatedCategories, input \in Inputs :
        /\ totalCount(tasks) < MaxTasks
        /\ addTask(category, input)
        /\ UNCHANGED rest

AddPoolTask ==
    \E input \in Inputs :
        /\ totalCount(tasks) < MaxTasks
        /\ addPoolTask(input)
        /\ UNCHANGED rest

CompleteTask ==
    \E category \in Categories, taskId \in Ids :
        completeTask(category, taskId) /\ UNCHANGED rest

UncompleteTask ==
    \E category \in Categories, taskId \in Ids :
        uncompleteTask(category, taskId) /\ UNCHANGED rest

ToggleTaskInProgress ==
    \E category \in Categories, taskId \in Ids :
        toggleTaskInProgress(category, taskId) /\ UNCHANGED rest

EditTask ==
    \E category \in Categories, taskId \in Ids, newText \in Inputs :
        editTask(category, taskId, newText) /\ UNCHANGED rest

MoveTaskToDate ==
    \E category \in DatedCategories, taskId \in Ids, daysOffset \in Offsets :
        /\ totalCount(tasks) < MaxTasks
        /\ formatDateKey(setDate(currentDate, daysOffset)) \in Days
        /\ moveTaskToDate(category, taskId, daysOffset)
        /\ UNCHANGED rest

MoveTaskBetweenCategories ==
    \E fromCategory \in DatedCategories, toCategory \in DatedCategories,
       taskId \in Ids :
        /\ fromCategory # toCategory
        /\ moveTaskBetweenCategories(fromCategory, toCategory, taskId)
        /\ UNCHANGED rest

MovePoolTaskToDate ==
    \E targetCategory \in DatedCategories, taskId \in Ids :
        movePoolTaskToDate(targetCategory, taskId) /\ UNCHANGED rest

MovePoolTaskToSpecificDate ==
    \E taskId \in Ids, daysOffset \in Offsets :
        /\ formatDateKey(setDate(currentDate, daysOffset)) \in Days
        /\ movePoolTaskToSpecificDate(taskId, setDate(currentDate, daysOffset))
        /\ UNCHANGED rest

MoveTaskToPool ==
    \E fromCategory \in DatedCategories, taskId \in Ids :
        moveTaskToPool(fromCategory, taskId) /\ UNCHANGED rest

DeleteTask ==
    \E category \in Categories, taskId \in Ids :
        deleteTask(category, taskId) /\ UNCHANGED rest

ReorderTasks ==
    \E category \in Categories, draggedTaskId \in Ids, targetTaskId \in Ids,
       insertBefore \in BOOLEAN :
        /\ reorderTasks(category, draggedTaskId, targetTaskId, insertBefore)
        /\ UNCHANGED rest

ChangeDate ==
    \E days \in Offsets :
        /\ setDate(currentDate, days) \in Instants
        /\ changeDate(days)
        /\ UNCHANGED <<tz, now, cloudData, merges, token, gistId, gists,
                       flows, busy>>

SelectDate ==
    \E day \in Days :
        /\ localMidnight(day) \in Instants
        /\ selectDate(localMidnight(day))
        /\ UNCHANGED <<tz, now, cloudData, merges, token, gistId, gists,
                       flows, busy>>

Next ==
    \/ AddTask
    \/ AddPoolTask
    \/ CompleteTask
    \/ UncompleteTask
    \/ ToggleTaskInProgress
    \/ EditTask
    \/ MoveTaskToDate
    \/ MoveTaskBetweenCategories
    \/ MovePoolTaskToDate
    \/ MovePoolTaskToSpecificDate
    \/ MoveTaskToPool
    \/ DeleteTask
    \/ ReorderTasks
    \/ ChangeDate
    \/ SelectDate
    \/ Tick

Spec == Init /\ [][Next]_vars

(***************************************************************************)
(* Specification of the merge: a local collection and a remote snapshot    *)
(* are drawn, and the snapshot is merged MaxMerges times.                  *)
(***************************************************************************)
mergeTexts == { <<"A">>, <<"B">> }

bucketsUpTo(n, S) == UNION { [1..k -> S] : k \in 0..n }

datedTasks(dateKey) ==
    { newTask(id, text, dateKey) : id \in Ids, text \in mergeTexts }

\* a date-keyed category with at most the one bucket dateKey
categoriesOn(dateKey, n) ==
    { <<>> } \cup { dateKey :> b : b \in bucketsUpTo(n, datedTasks(dateKey)) }

InitMerge ==
    /\ tasks \in
         { [personal |-> p, work |-> w, pool |-> q] :
             p \in categoriesOn(0, MaxLen),
             w \in { <<>>, 1 :> <<newTask(1, <<"A">>, 1)>> },
             q \in { <<>>, <<newTask(1, <<"A">>, Null)>> } }
    /\ cloudData \in
         { [personal |-> p, work |-> w, pool |-> q] :
             p \in categoriesOn(0, MaxLen),
             w \in { <<>>, 1 :> <<newTask(1, <<"B">>, 1)>> },
             q \in { <<>>, <<newTask(2, <<"B">>, Null)>> } }
    /\ stored = saveTasks(tasks)
    /\ tz = 0
    /\ currentDate = Today * TicksPerDay
    /\ now = 1
    /\ thrown = FALSE
    /\ merges = 0
    /\ noSync

MergeTaskData ==
    /\ merges < MaxMerges
    /\ mergeTaskData(cloudData)
    /\ merges' = merges + 1
    /\ UNCHANGED <<currentDate, tz, now, cloudData, token, gistId, gists,
                   flows, busy>>

NextMerge == MergeTaskData

SpecMerge == InitMerge /\ [][NextMerge]_vars

(***************************************************************************)
(* Specification of the reorder: the planner is opened on a stored         *)
(* collection with one personal bucket of up to MaxBucket tasks for the    *)
(* viewed date, no work bucket and a pool, and tasks are dragged onto      *)
(* each other.  The stored buckets are in the order of their ids, the      *)
(* order in which additions leave them.                                    *)
(***************************************************************************)
MaxBucket == 3     \* length of the bucket that is reordered

inIdOrder(ts) == \A i \in 1..(Len(ts) - 1) : ts[i].id <= ts[i + 1].id

storedBuckets(n, S) == { b \in bucketsUpTo(n, S) : inIdOrder(b) }

InitReorder ==
    /\ tasks \in
         { [personal |-> Today :> p, work |-> <<>>, pool |-> q] :
             p \in storedBuckets(MaxBucket, datedTasks(Today)),
             q \in storedBuckets(2, { newTask(id, <<"A">>, Null) : id \in Ids }) }
    /\ stored = saveTasks(tasks)
    /\ tz = 0
    /\ currentDate = localMidnight(Today)
    /\ now = 1
    /\ thrown = FALSE
    /\ cloudData = emptyCollection
    /\ merges = 0
    /\ noSync

NextReorder == ReorderTasks

SpecReorder == InitReorder /\ [][NextReorder]_vars

(***************************************************************************)
(* Specifications of the sync engine.  The planner is opened on a stored   *)
(* collection, with or without a credential and a cached identifier, and   *)
(* against a remote service in one of a few conditions.                    *)
(*   SpecSync:   sync, pull and push are clicked, the credential is        *)
(*               cleared and a task is added, in any interleaving;         *)
(*   SpecEngine: the three methods of the engine are called, and the       *)
(*               credential is set and cleared, in any interleaving.       *)
(***************************************************************************)
localTask == newTask(1, <<"A">>, Today)
cloudTask == newTask(2, <<"B">>, Today)

localCollection == [emptyCollection EXCEPT !.personal = Today :> <<localTask>>]
cloudCollection == [emptyCollection EXCEPT !.personal = Today :> <<cloudTask>>]

document(id, owner, description, file) ==
    [id |-> id, owner |-> owner, description |-> description, file |-> file]

backup(id, file) == document(id, 1, Sentinel, file)

\* no document; a backup; a backup whose file is empty; a backup whose
\* file is no JSON
remotes ==
    { <<>>,
      << backup(1, stringify(cloudCollection)) >>,
      << backup(1, emptyFile) >>,
      << backup(1, textFile) >> }

\* and: a document with another label before the backup; a labelled
\* document without the file before the backup; a labelled document
\* without the file alone
listings ==
    remotes \cup
    { << document(1, 1, "notes", stringify(cloudCollection)),
         backup(2, stringify(cloudCollection)) >>,
      << backup(1, noFile), backup(2, stringify(cloudCollection)) >>,
      << backup(1, noFile) >> }

\* the identifier cached by an earlier session: none, or that of document
\* 1, which may be gone by now (clearToken removes the identifier with the
\* credential, so that one is stored only next to a credential)
cachedIds == {Null, 1}

HandlerKinds == {"sync", "pull", "push"}
EngineKinds == {"locate", "fetch", "publish"}

opened(docs) ==
    /\ tasks = localCollection
    /\ stored = saveTasks(tasks)
    /\ tz = 0
    /\ currentDate = localMidnight(Today)
    /\ now = 1
    /\ thrown = FALSE
    /\ cloudData = emptyCollection
    /\ merges = 0
    /\ token \in {Null} \cup Tokens
    /\ gistId \in IF token = Null THEN {Null} ELSE cachedIds
    /\ gists \in docs
    /\ flows = [f \in Flows |-> idleFlow]
    /\ busy = [b \in Buttons |-> FALSE]

InitSync == opened(remotes)

\* flows are numbered in the order in which they start
StartFlow ==
    \E f \in Flows, kind \in HandlerKinds :
        /\ \A g \in 1..(f - 1) : flows[g].pc # "idle"
        /\ Start(f, kind)

ReplyToFlow == \E f \in Flows : Reply(f)

FailFlow == \E f \in Flows : Fail(f)

ResumeFlow == \E f \in Flows : Resume(f)

ClearToken == token # Null /\ clearToken

\* a lifecycle operation committed while a flow waits is recorded in the
\* flow, with the engine method the flow is waiting in
noted(fl) ==
    IF fl.pc \in {"idle", "done"} THEN fl
    ELSE [fl EXCEPT !.edits = Append(@, fl.op)]

AddLocalTask ==
    /\ totalCount(tasks) < MaxTasks
    /\ addTask("personal", <<"A">>)
    /\ flows' = [f \in Flows |-> noted(flows[f])]
    /\ UNCHANGED <<currentDate, tz, now, cloudData, merges, token, gistId,
                   gists, busy>>

NextSync ==
    \/ StartFlow
    \/ ReplyToFlow
    \/ FailFlow
    \/ ResumeFlow
    \/ ClearToken
    \/ AddLocalTask

SpecSync == InitSync /\ [][NextSync]_vars

InitEngine == opened(listings)

StartCall ==
    \E f \in Flows, kind \in EngineKinds :
        /\ \A g \in 1..(f - 1) : flows[g].pc # "idle"
        /\ Start(f, kind)

SetToken == \E t \in Tokens : token # t /\ setToken(t)

NextEngine ==
    \/ StartCall
    \/ ReplyToFlow
    \/ FailFlow
    \/ ResumeFlow
    \/ SetToken
    \/ ClearToken

SpecEngine == InitEngine /\ [][NextEngine]_vars

(***************************************************************************)
(* Vocabulary of the properties                                            *)
(***************************************************************************)
\* the places a task can be at: <<category, date key, index>>, the pool
\* having the single key Null
datedSlots(T, c) ==
    UNION { { <<c, d, i>> : i \in 1..Len(T[c][d]) } : d \in DOMAIN T[c] }

slots(T) ==
    datedSlots(T, "personal") \cup datedSlots(T, "work")
        \cup { <<"pool", Null, i>> : i \in 1..Len(T.pool) }

taskAt(T, s) == IF s[1] = "pool" THEN T.pool[s[3]] ELSE T[s[1]][s[2]][s[3]]

\* the length of a bucket, 0 when the bucket was never created
bucketLen(T, category, dateKey) ==
    IF hasBucket(T, category, dateKey) THEN Len(T[category][dateKey]) ELSE 0

isPrefix(a, b) == Len(a) <= Len(b) /\ SubSeq(b, 1, Len(a)) = a

\* every date-keyed bucket other than the listed <<category, date key>>
\* pairs is the same in T and U, as is the set of buckets
sameDatedExcept(T, U, pairs) ==
    \A c \in DatedCategories :
        \A d \in (DOMAIN T[c] \cup DOMAIN U[c]) :
            <<c, d>> \notin pairs =>
                /\ d \in DOMAIN T[c]
                /\ d \in DOMAIN U[c]
                /\ T[c][d] = U[c][d]

(***************************************************************************)
(* C1: in every reachable state every task of every bucket has             *)
(* completed = (status = "completed"), the progress toggle on a completed  *)
(* task included.                                                          *)
(***************************************************************************)
C1_CompletedIffStatus ==
    \A s \in slots(tasks) :
        taskAt(tasks, s).completed = (taskAt(tasks, s).status = "completed")

(***************************************************************************)
(* C2: in every reachable state every pool task has originalDate = null    *)
(* and a status other than completed.                                      *)
(***************************************************************************)
C2_PoolTasksUndatedAndOpen ==
    \A i \in 1..Len(tasks.pool) :
        /\ tasks.pool[i].originalDate = Null
        /\ tasks.pool[i].status # "completed"

\* the pool holds a task that arrived after the first tick of the clock and
\* was toggled there, next to a completed dated task
C2_Witness ==
    /\ \E i \in 1..Len(tasks.pool) :
          tasks.pool[i].status = "in-progress" /\ tasks.pool[i].id > 1
    /\ \E s \in slots(tasks) : taskAt(tasks, s).status = "completed"

(***************************************************************************)
(* C3: in every reachable state no two tasks of the collection share an    *)
(* id, the clock being free not to advance between two operations.         *)
(***************************************************************************)
C3_UniqueIds ==
    \A s1 \in slots(tasks), s2 \in slots(tasks) :
        s1 # s2 => taskAt(tasks, s1).id # taskAt(tasks, s2).id

(***************************************************************************)
(* C4: a merge never removes or overwrites a local task: every bucket of   *)
(* the local collection is, after the merge, still there and starts with   *)
(* exactly the tasks it held, in their order and with all their fields,    *)
(* also when the snapshot holds a task of the same id with other fields.   *)
(***************************************************************************)
C4_MergeKeepsLocalTasks ==
    [][ merges' = merges + 1 =>
          /\ \A c \in DatedCategories :
                \A d \in DOMAIN tasks[c] :
                    /\ d \in DOMAIN tasks'[c]
                    /\ isPrefix(tasks[c][d], tasks'[c][d])
          /\ isPrefix(tasks.pool, tasks'.pool) ]_vars

\* after a merge: local id 1 still reads "A" although the snapshot has id 1
\* as "B", and the snapshot's id 2 follows it
C4_Witness ==
    /\ merges = 1
    /\ cloudData.personal =
          (0 :> << newTask(1, <<"B">>, 0), newTask(2, <<"B">>, 0) >>)
    /\ tasks.personal =
          (0 :> << newTask(1, <<"A">>, 0), newTask(2, <<"B">>, 0) >>)

(***************************************************************************)
(* C5: merge is idempotent: merging a snapshot that has been merged        *)
(* already leaves the local collection as the first merge left it.         *)
(***************************************************************************)
C5_MergeIdempotent ==
    [][ (merges >= 1 /\ merges' = merges + 1) => tasks' = tasks ]_vars

\* the snapshot was merged twice into a bucket that had a task of its own
\* (id 1 "A") and lacked the snapshot's id 2
C5_Witness ==
    /\ merges = 2
    /\ cloudData.personal =
          (0 :> << newTask(2, <<"B">>, 0), newTask(1, <<"B">>, 0) >>)
    /\ tasks.personal =
          (0 :> << newTask(1, <<"A">>, 0), newTask(2, <<"B">>, 0) >>)

(***************************************************************************)
(* C6: merge is a set union over ids, bucket by bucket: a bucket of the    *)
(* snapshot that the local collection lacks is adopted as it is; one that  *)
(* the local collection has becomes the old local bucket followed by       *)
(* exactly the snapshot's tasks whose id was not in it, in the snapshot's  *)
(* order; a bucket the snapshot lacks is unchanged.                        *)
(***************************************************************************)
remoteOnly(localTasks, cloudTasks) ==
    SelectSeq(cloudTasks,
              LAMBDA t : \A i \in 1..Len(localTasks) : localTasks[i].id # t.id)

C6_MergeIsUnionPerBucket ==
    [][ merges' = merges + 1 =>
          \A c \in DatedCategories :
             /\ DOMAIN tasks'[c] = DOMAIN tasks[c] \cup DOMAIN cloudData[c]
             /\ \A d \in DOMAIN cloudData[c] :
                   tasks'[c][d] =
                       IF d \notin DOMAIN tasks[c] THEN cloudData[c][d]
                       ELSE tasks[c][d]
                               \o remoteOnly(tasks[c][d], cloudData[c][d])
             /\ \A d \in DOMAIN tasks[c] \ DOMAIN cloudData[c] :
                   tasks'[c][d] = tasks[c][d] ]_vars

(***************************************************************************)
(* C7: an adjacent-date move of a task of a personal or work bucket keeps  *)
(* the origin task in its bucket with moved = true and appends exactly one *)
(* new task to the bucket of the same category one day before or after the *)
(* viewed date, with an id different from the origin's, moved = false and  *)
(* the origin's originalDate; no other bucket changes.                     *)
(***************************************************************************)
bucketOrEmpty(T, category, dateKey) ==
    IF hasBucket(T, category, dateKey) THEN T[category][dateKey] ELSE <<>>

C7_DateMoveKeepsOrigin ==
    [][ \A c \in DatedCategories, id \in Ids, off \in Offsets :
          LET key == getDateKey
              target == formatDateKey(setDate(currentDate, off))
          IN  ( /\ moveTaskToDate(c, id, off)
                /\ UNCHANGED rest
                /\ hasBucket(tasks, c, key)
                /\ findIndex(tasks[c][key], id) # 0 )
              =>
              LET i == findIndex(tasks[c][key], id)
                  origin == tasks[c][key][i]
                  dest == tasks'[c][target]
                  added == dest[Len(dest)]
              IN  /\ tasks'[c][key] = [tasks[c][key] EXCEPT ![i].moved = TRUE]
                  /\ hasBucket(tasks', c, target)
                  /\ dest = Append(bucketOrEmpty(tasks, c, target), added)
                  /\ added.id # origin.id
                  /\ added.moved = FALSE
                  /\ added.originalDate = origin.originalDate
                  /\ sameDatedExcept(tasks, tasks', {<<c, key>>, <<c, target>>})
                  /\ tasks'.pool = tasks.pool ]_vars

(***************************************************************************)
(* C8: the number of tasks in the whole collection is unchanged by every   *)
(* relocation (adjacent-date move, category move, move to the pool, move   *)
(* from the pool, pool completion); only add and delete change it.         *)
(***************************************************************************)
CompletePoolTask ==
    \E taskId \in Ids : completePoolTask(taskId) /\ UNCHANGED rest

C8_RelocationsKeepCount ==
    [][ /\ ( \/ MoveTaskToDate
             \/ MoveTaskBetweenCategories
             \/ MoveTaskToPool
             \/ MovePoolTaskToDate
             \/ MovePoolTaskToSpecificDate
             \/ CompletePoolTask )
           => totalCount(tasks') = totalCount(tasks)
        /\ totalCount(tasks') # totalCount(tasks)
           => (AddTask \/ AddPoolTask \/ DeleteTask) ]_vars

\* C8 as amended: category move, move to the pool, move from the pool (to a
\* category or to an adjacent date) and pool completion keep the number of
\* tasks; an adjacent-date move of a dated task that finds its task adds
\* exactly one, the origin staying as a stub; only add, delete and that
\* move change the number.  (Each implication is written from the side of
\* the count: a step that changes the count is none of the count-keeping
\* relocations, and a step that changes the collection by anything but +1
\* is no date move that found its task.)
C8_CountUnderRelocation ==
    [][ /\ totalCount(tasks') # totalCount(tasks)
           => /\ ~ ( \/ MoveTaskBetweenCategories
                     \/ MoveTaskToPool
                     \/ MovePoolTaskToDate
                     \/ MovePoolTaskToSpecificDate
                     \/ CompletePoolTask )
              /\ (AddTask \/ AddPoolTask \/ DeleteTask \/ MoveTaskToDate)
        /\ (tasks' # tasks /\ totalCount(tasks') # totalCount(tasks) + 1)
           => ~ \E c \in DatedCategories, id \in Ids, off \in Offsets :
                  /\ moveTaskToDate(c, id, off)
                  /\ UNCHANGED rest
                  /\ hasBucket(tasks, c, getDateKey)
                  /\ findIndex(tasks[c][getDateKey], id) # 0 ]_vars

\* a stub sits in personal[1]; its copy, made in personal[0], is now in
\* work[0] and no bucket work[1] was ever created: the copy got there by a
\* category move after the date move
C8_Witness ==
    /\ hasBucket(tasks, "personal", 1)
    /\ \E i \in 1..Len(tasks.personal[1]) : tasks.personal[1][i].moved
    /\ ~hasBucket(tasks, "work", 1)
    /\ hasBucket(tasks, "work", 0)
    /\ \E i \in 1..Len(tasks.work[0]) : tasks.work[0][i].originalDate = 1
    /\ totalCount(tasks) = 2

(***************************************************************************)
(* C9: a move between personal and work, to the pool, or from the pool     *)
(* into a category removes exactly one task from the source bucket and     *)
(* appends exactly one task to the destination bucket, the appended task   *)
(* having an id different from the removed one; every other bucket is      *)
(* unchanged.                                                              *)
(***************************************************************************)
C9_RelocationMovesOneTask ==
    [][ LET key == getDateKey
        IN  /\ \A from \in DatedCategories, to \in DatedCategories, id \in Ids :
                 ( /\ from # to
                   /\ moveTaskBetweenCategories(from, to, id)
                   /\ UNCHANGED rest
                   /\ hasBucket(tasks, from, key)
                   /\ findIndex(tasks[from][key], id) # 0 )
                 =>
                 LET i == findIndex(tasks[from][key], id)
                     dest == tasks'[to][key]
                 IN  /\ tasks'[from][key] = splice(tasks[from][key], i)
                     /\ hasBucket(tasks', to, key)
                     /\ dest = Append(bucketOrEmpty(tasks, to, key),
                                      dest[Len(dest)])
                     /\ dest[Len(dest)].id # tasks[from][key][i].id
                     /\ sameDatedExcept(tasks, tasks',
                                        {<<from, key>>, <<to, key>>})
                     /\ tasks'.pool = tasks.pool
            /\ \A from \in DatedCategories, id \in Ids :
                 ( /\ moveTaskToPool(from, id)
                   /\ UNCHANGED rest
                   /\ hasBucket(tasks, from, key)
                   /\ findIndex(tasks[from][key], id) # 0 )
                 =>
                 LET i == findIndex(tasks[from][key], id)
                     dest == tasks'.pool
                 IN  /\ tasks'[from][key] = splice(tasks[from][key], i)
                     /\ dest = Append(tasks.pool, dest[Len(dest)])
                     /\ dest[Len(dest)].id # tasks[from][key][i].id
                     /\ sameDatedExcept(tasks, tasks', {<<from, key>>})
            /\ \A to \in DatedCategories, id \in Ids :
                 ( /\ movePoolTaskToDate(to, id)
                   /\ UNCHANGED rest
                   /\ findIndex(tasks.pool, id) # 0 )
                 =>
                 LET i == findIndex(tasks.pool, id)
                     dest == tasks'[to][key]
                 IN  /\ tasks'.pool = splice(tasks.pool, i)
                     /\ hasBucket(tasks', to, key)
                     /\ dest = Append(bucketOrEmpty(tasks, to, key),
                                      dest[Len(dest)])
                     /\ dest[Len(dest)].id # tasks.pool[i].id
                     /\ sameDatedExcept(tasks, tasks', {<<to, key>>}) ]_vars

(***************************************************************************)
(* C10: completing a task that is in the pool shortens the pool by one and *)
(* lengthens personal[viewed date key] by one; the appended task has       *)
(* status completed, completed = true and completedDate = originalDate =   *)
(* viewed date key, whatever date is viewed.                               *)
(***************************************************************************)
C10_PoolCompletion ==
    [][ \A id \in Ids :
          ( /\ completeTask("pool", id)
            /\ UNCHANGED rest
            /\ findIndex(tasks.pool, id) # 0 )
          =>
          LET key == getDateKey
              dest == tasks'.personal[key]
              added == dest[Len(dest)]
          IN  /\ Len(tasks'.pool) = Len(tasks.pool) - 1
              /\ hasBucket(tasks', "personal", key)
              /\ Len(dest) = bucketLen(tasks, "personal", key) + 1
              /\ added.status = "completed"
              /\ added.completed = TRUE
              /\ added.completedDate = key
              /\ added.originalDate = key ]_vars

\* on a day other than the one the planner opened on, with no work bucket
\* ever created: the pool is empty again and personal[viewed date] ends
\* with a completed task dated to the viewed day, after an open task
C10_Witness ==
    /\ getDateKey = 0
    /\ tasks.pool = <<>>
    /\ DOMAIN tasks.work = {}
    /\ DOMAIN tasks.personal = {0}
    /\ Len(tasks.personal[0]) = 2
    /\ tasks.personal[0][1].status = "in-progress"
    /\ tasks.personal[0][2].status = "completed"
    /\ tasks.personal[0][2].completed
    /\ tasks.personal[0][2].completedDate = 0
    /\ tasks.personal[0][2].originalDate = 0

(***************************************************************************)
(* C11: a lifecycle operation (complete, uncomplete, progress toggle,      *)
(* edit, adjacent-date move, category move, move to the pool, move from    *)
(* the pool, delete, reorder) called with an id that is not in the bucket  *)
(* it addresses ends without an exception and leaves the collection and    *)
(* the persisted snapshot as they were, also when (category, viewed date)  *)
(* never had a bucket.                                                     *)
(***************************************************************************)
\* the id is not in the bucket the call addresses (a bucket that was never
\* created holds no id)
absentFrom(category, taskId) ==
    IF category = "pool" THEN findIndex(tasks.pool, taskId) = 0
    ELSE findIndex(bucketOrEmpty(tasks, category, getDateKey), taskId) = 0

silentNoOp == thrown' = FALSE /\ tasks' = tasks /\ stored' = stored

C11_AbsentIdIsSilentNoOp ==
    [][ \A c \in Categories, id \in Ids :
          absentFrom(c, id) =>
            /\ (completeTask(c, id) /\ UNCHANGED rest) => silentNoOp
            /\ (uncompleteTask(c, id) /\ UNCHANGED rest) => silentNoOp
            /\ (toggleTaskInProgress(c, id) /\ UNCHANGED rest) => silentNoOp
            /\ (deleteTask(c, id) /\ UNCHANGED rest) => silentNoOp
            /\ \A newText \in Inputs :
                 (editTask(c, id, newText) /\ UNCHANGED rest) => silentNoOp
            /\ \A target \in Ids, insertBefore \in BOOLEAN :
                 (reorderTasks(c, id, target, insertBefore) /\ UNCHANGED rest)
                     => silentNoOp
            /\ c = "pool" =>
                 \A to \in DatedCategories :
                    (movePoolTaskToDate(to, id) /\ UNCHANGED rest)
                        => silentNoOp
            /\ c # "pool" =>
                 /\ \A off \in Offsets :
                      (moveTaskToDate(c, id, off) /\ UNCHANGED rest)
                          => silentNoOp
                 /\ \A to \in DatedCategories \ {c} :
                      (moveTaskBetweenCategories(c, to, id) /\ UNCHANGED rest)
                          => silentNoOp
                 /\ (moveTaskToPool(c, id) /\ UNCHANGED rest) => silentNoOp
      ]_vars

sameRecords(a, b) ==
    /\ Len(a) = Len(b)
    /\ \A i \in 1..Len(a) :
          Cardinality({ j \in 1..Len(a) : a[j] = a[i] })
              = Cardinality({ j \in 1..Len(b) : b[j] = a[i] })

C13_ReorderPermutesBucket ==
    [][ \A c \in Categories, dragged \in Ids, target \in Ids,
           before \in BOOLEAN :
          (reorderTasks(c, dragged, target, before) /\ UNCHANGED rest) =>
            LET key == getDateKey
                old == IF c = "pool" THEN tasks.pool
                       ELSE bucketOrEmpty(tasks, c, key)
                new == IF c = "pool" THEN tasks'.pool
                       ELSE bucketOrEmpty(tasks', c, key)
            IN  IF \/ dragged = target
                   \/ findIndex(old, dragged) = 0
                   \/ findIndex(old, target) = 0
                THEN tasks' = tasks /\ stored' = stored
                ELSE /\ sameRecords(old, new)
                     /\ IF c = "pool"
                        THEN /\ tasks'.personal = tasks.personal
                             /\ tasks'.work = tasks.work
                        ELSE /\ tasks'.pool = tasks.pool
                             /\ hasBucket(tasks', c, key)
                             /\ sameDatedExcept(tasks, tasks', {<<c, key>>})
      ]_vars

\* a bucket of three in which ids run 2, 1, 1 (a stored bucket is in id
\* order, so a reorder made this one) and a pool whose two tasks changed
\* places
C13_Witness ==
    /\ Len(tasks.personal[Today]) = 3
    /\ tasks.personal[Today][1].id = 2
    /\ tasks.personal[Today][2].id = 1
    /\ tasks.personal[Today][3].id = 1
    /\ tasks.personal[Today][2].text # tasks.personal[Today][3].text
    /\ Len(tasks.pool) = 2
    /\ tasks.pool[1].id = 2
    /\ tasks.pool[2].id = 1

(***************************************************************************)
(* C14: within one sync flow the steps are in order: the Fetch has ended   *)
(* (with a snapshot or with a failure that is tolerated) before the merge  *)
(* starts, and the merge has ended before Publish starts or sends a write  *)
(* to the remote; Publish never starts while the Fetch or the merge of the *)
(* flow is pending.                                                        *)
(***************************************************************************)
\* event e occurs in tr before position i
before(tr, i, E) == \E j \in 1..(i - 1) : tr[j] \in E

C14_SyncStepsOrdered ==
    \A f \in Flows :
        flows[f].kind = "sync" =>
            LET tr == flows[f].trace
            IN  /\ \A i \in 1..Len(tr) :
                      /\ tr[i] = "merge" => before(tr, i, {"fetched"})
                      /\ tr[i] \in {"merge", "merged", "merge-threw"}
                            => ~before(tr, i, {"publish", "write"})
                      /\ tr[i] \in {"publish", "write"} =>
                            /\ before(tr, i, {"fetched"})
                            /\ before(tr, i, {"merge"})
                                  => before(tr, i, {"merged", "merge-threw"})
                      /\ tr[i] = "write" => before(tr, i, {"publish"})
                /\ flows[f].op = "publish" => flows[f].fetch # "none"
                /\ flows[f].pc \in {"patch", "post"} => flows[f].op = "publish"

\* a sync flow has gone through all its steps, and the merge took the
\* remote task in
C14_Witness ==
    \E f \in Flows :
        /\ flows[f].kind = "sync"
        /\ flows[f].pc = "done"
        /\ flows[f].trace = << "fetch", "fetched", "merge", "merged",
                               "publish", "write", "published" >>
        /\ flows[f].note = "success"
        /\ tasks.personal[Today] = <<localTask, cloudTask>>

(***************************************************************************)
(* C15: whatever the sequence and interleaving of Publish invocations for  *)
(* one credential (two outstanding at once with no cached identifier, or   *)
(* one whose Locate fails with a transport error while a backup exists),   *)
(* the remote holds at most one document with the sentinel label: at most  *)
(* one is ever created, and once one exists a Publish updates it.          *)
(***************************************************************************)
labelled(docs) == { i \in 1..Len(docs) : docs[i].description = Sentinel }

C15_OneBackupDocument == Cardinality(labelled(gists)) <= 1

(***************************************************************************)
(* C16: when the Fetch of a sync flow fails because no backup document     *)
(* can be located, the failure is not reported as a failed sync, no merge  *)
(* is made, the local collection is unchanged and Publish runs; when the   *)
(* Fetch of a pull flow fails in that way the failure is reported, nothing *)
(* is published and nothing local changes.                                 *)
(***************************************************************************)
occurs(tr, e) == \E i \in 1..Len(tr) : tr[i] = e

C16_NoBackupToleratedBySyncOnly ==
    [][ \A f \in Flows :
          (flows[f].fetch = "none" /\ flows'[f].fetch = "not-found") =>
            /\ tasks' = tasks
            /\ stored' = stored
            /\ flows[f].kind = "sync" =>
                 /\ ~occurs(flows'[f].trace, "merge")
                 /\ occurs(flows'[f].trace, "publish")
                 /\ flows'[f].op = "publish"
                 /\ flows'[f].note = "error" => flows'[f].publish # "none"
            /\ flows[f].kind = "pull" =>
                 /\ flows'[f].pc = "done"
                 /\ flows'[f].note \in {"warning", "error"}
                 /\ ~occurs(flows'[f].trace, "publish")
                 /\ flows'[f].reqs = flows[f].reqs ]_vars

\* on a remote without a document a pull has ended with its warning and a
\* sync has ended with success, having created the backup from the local
\* collection, which is as it was
C16_Witness ==
    /\ flows[1].kind = "pull"
    /\ flows[1].fetch = "not-found"
    /\ flows[1].note = "warning"
    /\ flows[2].kind = "sync"
    /\ flows[2].fetch = "not-found"
    /\ flows[2].pc = "done"
    /\ flows[2].note = "success"
    /\ tasks = localCollection
    /\ gists = << backup(1, stringify(localCollection)) >>

(***************************************************************************)
(* C17: a pull replaces the local state wholesale: when it succeeds the    *)
(* in-memory collection and the persisted snapshot are the fetched remote  *)
(* snapshot (a local task survives only if it is in the snapshot); when it *)
(* fails (no credential, no document, corrupt content, transport error)    *)
(* both are unchanged.                                                     *)
(***************************************************************************)
C17_PullReplacesOrLeaves ==
    [][ \A f \in Flows :
          ( /\ flows'[f].kind = "pull"
            /\ flows[f].pc # "done"
            /\ flows'[f].pc = "done" )
          =>
          IF flows'[f].note = "success"
          THEN /\ flows[f].req = "ok"
               /\ flows[f].resp.file.kind = "json"
               /\ tasks' = flows[f].resp.file.data
               /\ loadTasks(stored') = flows[f].resp.file.data
          ELSE /\ tasks' = tasks
               /\ stored' = stored
               /\ \/ flows'[f].fetch \in {"not-found", "corrupt", "syntax",
                                          "transport"}
                  \/ flows'[f].fetch = "none" /\ token = Null ]_vars

\* a pull has succeeded: the local task is gone, the collection and the
\* snapshot are the backup; another pull has failed
C17_Witness ==
    /\ \E f \in Flows :
          /\ flows[f].kind = "pull"
          /\ flows[f].note = "success"
    /\ \E f \in Flows :
          /\ flows[f].kind = "pull"
          /\ flows[f].pc = "done"
          /\ flows[f].note # "success"
    /\ tasks = cloudCollection
    /\ stored = saveTasks(cloudCollection)

(***************************************************************************)
(* C18: Locate, Fetch and Publish called without a stored credential each  *)
(* fail with the credential-not-set condition before any request is sent   *)
(* to the remote, and change neither the cached identifier nor the task    *)
(* collection.                                                             *)
(***************************************************************************)
C18_NoCredentialFailsFast ==
    [][ \A f \in Flows :
          (flows[f].pc = "idle" /\ flows'[f].pc # "idle" /\ token = Null) =>
            /\ flows'[f].pc = "done"
            /\ flows'[f].reqs = 0
            /\ flows'[f].req = "none"
            /\ gistId' = gistId
            /\ gists' = gists
            /\ tasks' = tasks
            /\ stored' = stored
            /\ flows'[f].kind = "locate" => flows'[f].locate = "token-not-set"
            /\ flows'[f].kind = "fetch" => flows'[f].fetch = "token-not-set"
            /\ flows'[f].kind = "publish"
                  => flows'[f].publish = "token-not-set" ]_vars

\* without a credential, on a remote that holds a backup: a Fetch and a
\* Locate or Publish have failed on the credential, no identifier is cached
\* and the collection is as it was
C18_Witness ==
    /\ token = Null
    /\ gistId = Null
    /\ gists = << backup(1, stringify(cloudCollection)) >>
    /\ tasks = localCollection
    /\ \E f \in Flows, g \in Flows :
          /\ flows[f].fetch = "token-not-set"
          /\ flows[f].reqs = 0
          /\ \/ flows[g].locate = "token-not-set"
             \/ flows[g].publish = "token-not-set"

(***************************************************************************)
(* C19: Locate with a credential never raises.  It returns and caches the  *)
(* identifier of the first listed document whose label is the sentinel and *)
(* which contains the expected file; when no document matches, or when the *)
(* listing fails with a transport error, it returns no identifier and      *)
(* leaves the cached identifier as it is.  The same transport error on the *)
(* request of Fetch or of Publish itself is propagated to the caller.      *)
(***************************************************************************)
\* document i of docs is what Locate looks for with credential tok
matches(docs, i, tok) ==
    /\ docs[i].owner = tok
    /\ docs[i].description = Sentinel
    /\ docs[i].file.kind # "none"

C19_LocateDegradesGracefully ==
    [][ \A f \in Flows :
          /\ \* the listing is answered
             ( flows[f].pc = "list" /\ flows[f].req = "sent"
                 /\ flows'[f].req = "ok" ) =>
               /\ \A i \in 1..Len(gists) :
                     ( /\ matches(gists, i, flows[f].tok)
                       /\ \A j \in 1..(i - 1) :
                             ~matches(gists, j, flows[f].tok) )
                     => flows'[f].resp.id = gists[i].id
               /\ (\A i \in 1..Len(gists) : ~matches(gists, i, flows[f].tok))
                     => flows'[f].resp.id = Null
          /\ \* Locate returns
             ( flows[f].kind = "locate" /\ flows[f].pc = "list"
                 /\ flows'[f].pc = "done" ) =>
               /\ flows'[f].locate = "ok"
               /\ IF flows[f].req = "ok" /\ flows[f].resp.id # Null
                  THEN /\ flows'[f].ret = <<flows[f].resp.id>>
                       /\ gistId' = flows[f].resp.id
                  ELSE /\ flows'[f].ret = <<>>
                       /\ gistId' = gistId
          /\ \* Locate called with a credential sends its request
             ( flows[f].pc = "idle" /\ flows'[f].kind = "locate"
                 /\ token # Null ) =>
               flows'[f].pc = "list" /\ flows'[f].locate = "none"
          /\ \* a failed request of Fetch or Publish
             ( flows[f].req = "failed" /\ flows'[f].req = "none" ) =>
               /\ flows[f].pc = "get" => flows'[f].fetch = "transport"
               /\ flows[f].pc \in {"patch", "post"}
                     => flows'[f].publish = "transport" ]_vars

\* behind a labelled document without the file, the backup (document 2) has
\* been located and cached by one call; another call, whose listing
\* failed, has returned nothing without raising
C19_Witness ==
    /\ gists = << backup(1, noFile), backup(2, stringify(cloudCollection)) >>
    /\ gistId = 2
    /\ \E f \in Flows, g \in Flows :
          /\ flows[f].kind = "locate"
          /\ flows[f].ret = <<2>>
          /\ flows[g].kind = "locate"
          /\ flows[g].pc = "done"
          /\ flows[g].reqs = 1
          /\ flows[g].locate = "ok"
          /\ flows[g].ret = <<>>

(***************************************************************************)
(* C20: Fetch fails with the no-backup-found condition exactly when no     *)
(* identifier is cached and Locate finds none, and with the corrupt-backup *)
(* condition when the document lacks the expected file or its content; it  *)
(* returns the parsed collection otherwise; Fetch never modifies the local *)
(* task collection.  (Read for a Fetch that has a credential and whose     *)
(* requests are answered: C18 and C19 deal with the other two failures.)   *)
(***************************************************************************)
\* flow f, a call of downloadFromGist, takes a step
fetchStep(f) == flows'[f].kind = "fetch" /\ flows'[f] # flows[f]

\* the step in which the call tests this.gistId after its Locate attempt
afterLocate(f) == flows[f].pc = "list" /\ flows[f].req \in {"ok", "failed"}

\* "no identifier is cached and Locate finds none"
noneLocated(f) ==
    gistId = Null /\ ~(flows[f].req = "ok" /\ flows[f].resp.id # Null)

\* the parts of C20 that do not depend on what "otherwise" covers
fetchFailures(f) ==
    /\ tasks' = tasks
    /\ stored' = stored
    /\ flows'[f].fetch = "not-found"
          <=> (flows[f].fetch = "not-found"
                  \/ (afterLocate(f) /\ noneLocated(f)))
    /\ (flows[f].pc = "get" /\ flows[f].req = "ok"
           /\ flows[f].resp.file.kind \in {"none", "empty"})
          => (flows'[f].fetch = "corrupt" /\ flows'[f].ret = <<>>)

C20_FetchOutcomes ==
    [][ \A f \in Flows :
          fetchStep(f) =>
            /\ fetchFailures(f)
            /\ (flows[f].pc = "get" /\ flows[f].req = "ok"
                   /\ flows[f].resp.file.kind \notin {"none", "empty"})
                  => /\ flows'[f].fetch = "ok"
                     /\ flows'[f].ret = <<flows[f].resp.file.data>> ]_vars

\* C20 as amended: Fetch fails with no-backup-found exactly when no
\* identifier is cached and Locate finds none, with corrupt-backup when the
\* document lacks the file or its content, with the parser's error when
\* the content is no JSON text, and with the transport error when its
\* request fails; it returns the parsed collection when the content is
\* JSON text; it never modifies the local collection.
C20_FetchOutcomesWithParseError ==
    [][ \A f \in Flows :
          fetchStep(f) =>
            /\ fetchFailures(f)
            /\ (flows[f].pc = "get" /\ flows[f].req = "ok"
                   /\ flows[f].resp.file.kind = "json")
                  => /\ flows'[f].fetch = "ok"
                     /\ flows'[f].ret = <<flows[f].resp.file.data>>
            /\ (flows[f].pc = "get" /\ flows[f].req = "ok"
                   /\ flows[f].resp.file.kind = "text")
                  => (flows'[f].fetch = "syntax" /\ flows'[f].ret = <<>>)
            /\ (flows[f].pc = "get" /\ flows[f].req = "failed")
                  => (flows'[f].fetch = "transport" /\ flows'[f].ret = <<>>)
            /\ flows'[f].fetch = "ok"
                  => (flows[f].fetch = "ok"
                        \/ (flows[f].pc = "get" /\ flows[f].req = "ok"
                              /\ flows[f].resp.file.kind = "json")) ]_vars

\* against a backup whose content is no JSON text: one Fetch, whose
\* listing failed, has ended with no-backup-found; another has located the
\* document and ended with the parser's error; the collection is as it was
C20_Witness ==
    /\ gists = << backup(1, textFile) >>
    /\ tasks = localCollection
    /\ \E f \in Flows, g \in Flows :
          /\ flows[f].kind = "fetch"
          /\ flows[f].fetch = "not-found"
          /\ flows[g].kind = "fetch"
          /\ flows[g].fetch = "syntax"
          /\ flows[g].reqs = 2

(***************************************************************************)
(* C21: after deleteTask(category, id) no bucket of the collection (of any *)
(* category and date, or the pool) holds a task with that id; the tasks    *)
(* with another id keep their bucket and their relative order; and when    *)
(* the id was in no bucket the collection is unchanged.                    *)
(***************************************************************************)
\* the tasks of a bucket that have another id, in their order
without(ts, taskId) == SelectSeq(ts, LAMBDA t : t.id # taskId)

holds(T, taskId) == \E s \in slots(T) : taskAt(T, s).id = taskId

C21_DeleteRemovesIdEverywhere ==
    [][ \A c \in Categories, id \in Ids :
          (deleteTask(c, id) /\ UNCHANGED rest) =>
            /\ ~holds(tasks', id)
            /\ \A k \in DatedCategories :
                 /\ DOMAIN tasks'[k] = DOMAIN tasks[k]
                 /\ \A d \in DOMAIN tasks[k] :
                      without(tasks'[k][d], id) = without(tasks[k][d], id)
            /\ without(tasks'.pool, id) = without(tasks.pool, id)
            /\ ~holds(tasks, id) => tasks' = tasks ]_vars

(***************************************************************************)
(* C22: addTask(c) with input t while the viewed date has key d changes    *)
(* nothing when trim(t) is empty; otherwise it appends exactly one task    *)
(* to the bucket c[d], which is created at that moment when it is absent,  *)
(* with text = trim(t), status pending, completed = false, completedDate   *)
(* = null, moved = false and originalDate = d, and no other bucket         *)
(* changes.                                                                *)
(***************************************************************************)
C22_AddAppendsOneTask ==
    [][ \A c \in DatedCategories, input \in Inputs :
          (addTask(c, input) /\ UNCHANGED rest) =>
            IF trim(input) = <<>>
            THEN tasks' = tasks /\ stored' = stored
            ELSE LET d == getDateKey
                     old == bucketOrEmpty(tasks, c, d)
                 IN  /\ hasBucket(tasks', c, d)
                     /\ Len(tasks'[c][d]) = Len(old) + 1
                     /\ SubSeq(tasks'[c][d], 1, Len(old)) = old
                     /\ LET t == tasks'[c][d][Len(old) + 1]
                        IN  /\ t.text = trim(input)
                            /\ Head(t.text) # " "
                            /\ t.text[Len(t.text)] # " "
                            /\ t.status = "pending"
                            /\ t.completed = FALSE
                            /\ t.completedDate = Null
                            /\ t.moved = FALSE
                            /\ t.originalDate = d
                     /\ sameDatedExcept(tasks, tasks', {<<c, d>>})
                     /\ tasks'.pool = tasks.pool ]_vars

\* a bucket created by one addition and extended by a second one: two
\* tasks as addTask makes them, of different ids, while the other category
\* never got a bucket
C22_Witness ==
    \E c \in DatedCategories :
        /\ hasBucket(tasks, c, Today)
        /\ Len(tasks[c][Today]) = 2
        /\ tasks[c][Today][1] = newTask(1, <<"A">>, Today)
        /\ tasks[c][Today][2] = newTask(2, <<"A">>, Today)
        /\ \A k \in DatedCategories \ {c} : DOMAIN tasks[k] = {}
        /\ DOMAIN tasks[c] = {Today}
        /\ tasks.pool = <<>>

(***************************************************************************)
(* Specification of the trip through the pool: the planner is opened on a  *)
(* stored collection whose only task is a work task of id firstId, in the  *)
(* millisecond firstId; the task is moved to the pool and from the pool    *)
(* into personal, while the viewed date changes and the clock ticks.       *)
(***************************************************************************)
firstId == 1

InitPoolTrip ==
    /\ tz = 0
    /\ \E d \in Days, text \in mergeTexts,
          status \in {"pending", "in-progress", "completed"} :
          /\ tasks = [emptyCollection EXCEPT !.work = d :>
                        << [newTask(firstId, text, d) EXCEPT
                              !.status = status,
                              !.completed = (status = "completed"),
                              !.completedDate =
                                  IF status = "completed" THEN d ELSE Null] >>]
          /\ currentDate = localMidnight(d)
    /\ stored = saveTasks(tasks)
    /\ now = firstId
    /\ thrown = FALSE
    /\ cloudData = emptyCollection
    /\ merges = 0
    /\ noSync

MoveWorkTaskToPool ==
    \E taskId \in Ids : moveTaskToPool("work", taskId) /\ UNCHANGED rest

MovePoolTaskToPersonal ==
    \E taskId \in Ids : movePoolTaskToDate("personal", taskId) /\ UNCHANGED rest

NextPoolTrip ==
    \/ MoveWorkTaskToPool
    \/ MovePoolTaskToPersonal
    \/ ChangeDate
    \/ SelectDate
    \/ Tick

SpecPoolTrip == InitPoolTrip /\ [][NextPoolTrip]_vars

(***************************************************************************)
(* C23: when a work task has been moved from its date bucket to the pool   *)
(* and is then moved from the pool into personal while the viewed date has *)
(* key d', the collection holds exactly one task, in personal[d'], with    *)
(* originalDate = d' and an id that differs from the id of the work task   *)
(* and from the id of the pool task; neither of these two ids is left in   *)
(* the collection.                                                         *)
(***************************************************************************)
C23_PoolTripGivesFreshId ==
    [][ \A poolId \in Ids :
          ( /\ findIndex(tasks.pool, poolId) # 0
            /\ movePoolTaskToDate("personal", poolId)
            /\ UNCHANGED rest )
          =>
          LET d == getDateKey
          IN  /\ slots(tasks') = { <<"personal", d, 1>> }
              /\ tasks'.personal[d][1].originalDate = d
              /\ tasks'.personal[d][1].id \notin {firstId, poolId}
              /\ ~holds(tasks', firstId)
              /\ ~holds(tasks', poolId) ]_vars

(***************************************************************************)
(* Specification of the edit: from empty storage tasks are added with      *)
(* texts typed with and without surrounding blanks, and are edited, by     *)
(* the text field of a rendered task (finishEdit) and by editTask called   *)
(* with any id and text.                                                   *)
(***************************************************************************)
EditInputs ==
    { <<>>, <<" ">>, <<"A">>, <<" ", "A", " ">>, <<"B", " ">>,
      <<" ", "B">> }

AddTyped ==
    \E category \in DatedCategories, input \in EditInputs :
        /\ totalCount(tasks) < MaxTasks
        /\ addTask(category, input)
        /\ UNCHANGED rest

AddPoolTyped ==
    \E input \in EditInputs :
        /\ totalCount(tasks) < MaxTasks
        /\ addPoolTask(input)
        /\ UNCHANGED rest

EditTyped ==
    \E category \in Categories, taskId \in Ids, newText \in EditInputs :
        editTask(category, taskId, newText) /\ UNCHANGED rest

FinishEdit ==
    \E category \in Categories, taskId \in Ids, input \in EditInputs :
        /\ findIndex(rendered(category), taskId) # 0
        /\ finishEdit(category, taskId, input)
        /\ UNCHANGED rest

NextEdit ==
    \/ AddTyped
    \/ AddPoolTyped
    \/ EditTyped
    \/ FinishEdit
    \/ ChangeDate
    \/ Tick

SpecEdit == Init /\ [][NextEdit]_vars

(***************************************************************************)
(* C24: in every reachable state the text of every task is non-empty and   *)
(* has no leading or trailing blank.  An edit that finds its task and      *)
(* whose trimmed replacement is non-empty gives the task the text          *)
(* trim(replacement) and changes nothing else; an edit whose trimmed       *)
(* replacement is empty or equal to the current text leaves the            *)
(* collection and the persisted snapshot unchanged.                        *)
(***************************************************************************)
trimmedText(text) ==
    text # <<>> /\ Head(text) # " " /\ text[Len(text)] # " "

textsTrimmed == \A s \in slots(tasks) : trimmedText(taskAt(tasks, s).text)

\* T with the text of the task at place s replaced
withText(T, s, text) ==
    IF s[1] = "pool" THEN [T EXCEPT !.pool[s[3]].text = text]
    ELSE [T EXCEPT ![s[1]][s[2]][s[3]].text = text]

editReplacesText(category, taskId, replacement) ==
    LET i == findIndex(rendered(category), taskId)
        s == <<category, IF category = "pool" THEN Null ELSE getDateKey, i>>
    IN  IF i = 0 \/ trim(replacement) = <<>>
             \/ trim(replacement) = rendered(category)[i].text
        THEN tasks' = tasks /\ stored' = stored
        ELSE /\ tasks' = withText(tasks, s, trim(replacement))
             /\ trimmedText(taskAt(tasks', s).text)

C24_TextTrimmedAndEdit ==
    /\ []textsTrimmed
    /\ [][ \A c \in Categories, id \in Ids, input \in EditInputs :
             /\ (editTask(c, id, input) /\ UNCHANGED rest)
                    => editReplacesText(c, id, input)
             /\ ( /\ findIndex(rendered(c), id) # 0
                  /\ finishEdit(c, id, input)
                  /\ UNCHANGED rest )
                    => editReplacesText(c, id, input) ]_vars

\* a task added as "A" now reads "B", next to a task that still reads "A"
C24_Witness ==
    \E s, u \in slots(tasks) :
        /\ taskAt(tasks, s).id = 1
        /\ taskAt(tasks, s).text = <<"B">>
        /\ taskAt(tasks, u).id = 2
        /\ taskAt(tasks, u).text = <<"A">>
        /\ stored = saveTasks(tasks)

(***************************************************************************)
(* C25: between two operations the persisted snapshot equals the           *)
(* collection in memory: loading the snapshot gives the collection, and    *)
(* every step that changes the collection (a lifecycle mutation, a merge,  *)
(* a pull) writes the changed collection to the snapshot in that step.     *)
(***************************************************************************)
snapshotCurrent == loadTasks(stored) = tasks

C25_SnapshotEqualsCollection ==
    /\ []snapshotCurrent
    /\ [][tasks' # tasks => stored' = saveTasks(tasks')]_vars

(***************************************************************************)
(* Specification of the zones: the planner is opened with empty storage    *)
(* at any time of day, in a zone behind UTC, at UTC or ahead of UTC;       *)
(* days are picked in the calendar and stepped through, and tasks are      *)
(* added, moved by a day and completed.                                    *)
(***************************************************************************)
Zones == {-1, 0, 1}

\* the calendar day the viewed date shows in local time, as
\* toLocaleDateString and new Date(year, month, day) count it
localDay(date) == (date + tz) \div TicksPerDay

InitZones ==
    /\ stored = noSlot
    /\ tasks = loadTasks(stored)
    /\ tz \in Zones
    /\ currentDate \in Instants
    /\ now = 1
    /\ thrown = FALSE
    /\ cloudData = emptyCollection
    /\ merges = 0
    /\ noSync

NextZones ==
    \/ AddTask
    \/ MoveTaskToDate
    \/ CompleteTask
    \/ ChangeDate
    \/ SelectDate
    \/ Tick

SpecZones == InitZones /\ [][NextZones]_vars

(***************************************************************************)
(* C26: the date key of the viewed date (the key of the bucket, the        *)
(* originalDate and completedDate written, the base of a date move) is     *)
(* the local calendar day of the viewed date at every UTC offset and time  *)
(* of day, not its UTC day; a day picked in the calendar (local midnight   *)
(* of that day) has that day as its key.                                   *)
(***************************************************************************)
C26_DateKeyIsLocalDay ==
    /\ [](getDateKey = localDay(currentDate))
    /\ [][ \A day \in Days :
             ( /\ selectDate(localMidnight(day))
               /\ UNCHANGED <<tz, now, cloudData, merges, token, gistId,
                              gists, flows, busy>> )
             => getDateKey' = day ]_vars

(***************************************************************************)
(* C27: toggleTaskInProgress turns a pending task into an in-progress      *)
(* task and an in-progress task into a pending task, and changes no other  *)
(* field of the task, no position and no other task; a second toggle of    *)
(* the task gives back the collection from before the first.               *)
(***************************************************************************)
\* T with the task at place s replaced
withTask(T, s, task) ==
    IF s[1] = "pool" THEN [T EXCEPT !.pool[s[3]] = task]
    ELSE [T EXCEPT ![s[1]][s[2]][s[3]] = task]

flipped(status) == IF status = "pending" THEN "in-progress" ELSE "pending"

C27_ToggleFlipsStatusOnly ==
    [][ \A c \in Categories, id \in Ids :
          LET i == findIndex(rendered(c), id)
              s == <<c, IF c = "pool" THEN Null ELSE getDateKey, i>>
          IN  ( /\ i # 0
                /\ rendered(c)[i].status \in {"pending", "in-progress"}
                /\ toggleTaskInProgress(c, id)
                /\ UNCHANGED rest )
              =>
              LET t == rendered(c)[i]
              IN  /\ tasks' = withTask(tasks, s,
                                  [t EXCEPT !.status = flipped(t.status)])
                  /\ withTask(tasks', s, toggled(taskAt(tasks', s))) = tasks
      ]_vars

\* a task in progress behind a task that is still pending
C27_Witness ==
    \E s, u \in slots(tasks) :
        /\ s[1] = u[1] /\ s[2] = u[2] /\ u[3] = s[3] + 1
        /\ taskAt(tasks, s).status = "pending"
        /\ taskAt(tasks, u).status = "in-progress"
        /\ ~taskAt(tasks, u).completed
        /\ taskAt(tasks, u).completedDate = Null

(***************************************************************************)
(* C28: in every reachable state every task has a completedDate exactly    *)
(* when its status is completed; uncompleteTask on a completed task sets   *)
(* status = pending, completed = false and completedDate = null and        *)
(* changes nothing else.                                                   *)
(***************************************************************************)
completedDateIffCompleted ==
    \A s \in slots(tasks) :
        (taskAt(tasks, s).completedDate # Null)
            = (taskAt(tasks, s).status = "completed")

C28_CompletedDateIffCompleted ==
    /\ []completedDateIffCompleted
    /\ [][ \A c \in Categories, id \in Ids :
             LET i == findIndex(rendered(c), id)
                 s == <<c, IF c = "pool" THEN Null ELSE getDateKey, i>>
             IN  ( /\ i # 0
                   /\ rendered(c)[i].status = "completed"
                   /\ uncompleteTask(c, id)
                   /\ UNCHANGED rest )
                 =>
                 tasks' = withTask(tasks, s,
                             [rendered(c)[i] EXCEPT !.status = "pending",
                                                    !.completed = FALSE,
                                                    !.completedDate = Null])
         ]_vars

\* a task was completed on day d and then moved by a day, which left a
\* completed stub and a completed copy; the stub has been uncompleted and
\* the copy still carries the completion of day d
C28_Witness ==
    \E s, u \in slots(tasks) :
        /\ s[1] = u[1]
        /\ s[2] # u[2]
        /\ taskAt(tasks, s).moved
        /\ taskAt(tasks, s).status = "pending"
        /\ ~taskAt(tasks, s).completed
        /\ taskAt(tasks, s).completedDate = Null
        /\ taskAt(tasks, u).status = "completed"
        /\ taskAt(tasks, u).completedDate = s[2]
        /\ taskAt(tasks, u).originalDate = s[2]

(***************************************************************************)
(* Specification of the start: the planner of either source file is        *)
(* opened on storage that holds no snapshot or a saved collection, tasks   *)
(* are added to the dated categories and the viewed date is changed.       *)
(***************************************************************************)
InitLoad ==
    /\ stored \in {noSlot, saveTasks(localCollection)}
    /\ tasks \in {loadTasks(stored), loadTasksWithoutPool(stored)}
    /\ tz = 0
    /\ currentDate = localMidnight(Today)
    /\ now = 1
    /\ thrown = FALSE
    /\ cloudData = emptyCollection
    /\ merges = 0
    /\ noSync

AddLoaded ==
    \E category \in DatedCategories, input \in Inputs :
        /\ bucketLen(tasks, category, getDateKey) < MaxTasks
        /\ addTask(category, input)
        /\ UNCHANGED rest

NextLoad ==
    \/ AddLoaded
    \/ ChangeDate
    \/ SelectDate
    \/ Tick

SpecLoad == InitLoad /\ [][NextLoad]_vars

(***************************************************************************)
(* C29: as long as no snapshot has been persisted the collection is the    *)
(* one loadTasks returned, and it is the canonical empty collection with   *)
(* its three categories: personal an empty map, work an empty map, pool    *)
(* an empty sequence.                                                      *)
(***************************************************************************)
C29_LoadGivesEmptyCollection ==
    stored = noSlot =>
        /\ DOMAIN tasks = Categories
        /\ tasks = emptyCollection

(***************************************************************************)
(* C30: after a reorder that is no no-op the dragged task is immediately   *)
(* before the target task when insertBefore is true and immediately after  *)
(* it when insertBefore is false, whether the dragged task was before or   *)
(* behind the target, and the other tasks of the bucket are in the order   *)
(* they were in.                                                           *)
(***************************************************************************)
C30_ReorderPutsDraggedNextToTarget ==
    [][ \A c \in Categories, dragged \in Ids, target \in Ids,
           insertBefore \in BOOLEAN :
          LET ts == rendered(c)
              di == findIndex(ts, dragged)
              ti == findIndex(ts, target)
          IN  ( /\ di # 0 /\ ti # 0 /\ di # ti
                /\ reorderTasks(c, dragged, target, insertBefore)
                /\ UNCHANGED rest )
              =>
              LET ts2 == rendered(c)'
                  others == splice(ts, di)
                  q == findIndex(others, target)
                  p == IF insertBefore THEN q ELSE q + 1
              IN  /\ Len(ts2) = Len(ts)
                  /\ ts2[p] = ts[di]
                  /\ splice(ts2, p) = others
                  /\ insertBefore => ts2[p + 1] = ts[ti]
                  /\ ~insertBefore => ts2[p - 1] = ts[ti]
                  /\ thrown' = FALSE ]_vars

\* the task of id 1 sits between two tasks of id 2 in a bucket that was
\* stored in the order of the ids: it was dragged behind the first of
\* them, or that one was dragged before it
C30_Witness ==
    /\ hasBucket(tasks, "personal", Today)
    /\ Len(tasks.personal[Today]) = 3
    /\ tasks.personal[Today][1].id = 2
    /\ tasks.personal[Today][2].id = 1
    /\ tasks.personal[Today][3].id = 2
    /\ stored = saveTasks(tasks)

(***************************************************************************)
(* C31: completing a pool task removes the pool task and inserts a new     *)
(* task into personal whose id differs from the id of the removed pool     *)
(* task, as for the other moves between buckets; no task with the old id   *)
(* is left in the pool.                                                    *)
(***************************************************************************)
C31_PoolCompletionGivesNewId ==
    [][ \A id \in Ids :
          ( /\ findIndex(tasks.pool, id) # 0
            /\ completeTask("pool", id)
            /\ UNCHANGED rest )
          =>
          LET dest == tasks'.personal[getDateKey]
          IN  /\ dest[Len(dest)].id # id
              /\ findIndex(tasks'.pool, id) = 0 ]_vars

(***************************************************************************)
(* C32: a task with moved = true is a terminal stub: moveTaskToDate        *)
(* called for it creates no task and changes nothing, so that a task is    *)
(* the source of at most one date move.                                    *)
(***************************************************************************)
C32_StubIsNotMovedAgain ==
    [][ \A c \in DatedCategories, id \in Ids, daysOffset \in Offsets :
          LET i == findIndex(rendered(c), id)
          IN  ( /\ i # 0
                /\ rendered(c)[i].moved
                /\ moveTaskToDate(c, id, daysOffset)
                /\ UNCHANGED rest )
              => (tasks' = tasks /\ stored' = stored) ]_vars

(***************************************************************************)
(* C33: moveTaskToPool of a task of (category, viewed date) appends to     *)
(* the pool a task with originalDate = null, moved = false, completed =    *)
(* false, completedDate = null and the text of the source; its status is   *)
(* pending when the source was completed or pending and in-progress when   *)
(* the source was in-progress; the source is no longer in its bucket and   *)
(* no stub is left.                                                        *)
(***************************************************************************)
C33_MoveToPoolResetsTask ==
    [][ \A from \in DatedCategories, id \in Ids :
          LET i == findIndex(rendered(from), id)
          IN  ( /\ i # 0
                /\ moveTaskToPool(from, id)
                /\ UNCHANGED rest )
              =>
              LET source == rendered(from)[i]
                  added == tasks'.pool[Len(tasks'.pool)]
              IN  /\ Len(tasks'.pool) = Len(tasks.pool) + 1
                  /\ SubSeq(tasks'.pool, 1, Len(tasks.pool)) = tasks.pool
                  /\ added.originalDate = Null
                  /\ added.moved = FALSE
                  /\ added.completed = FALSE
                  /\ added.completedDate = Null
                  /\ added.text = source.text
                  /\ source.status \in {"completed", "pending"}
                        => added.status = "pending"
                  /\ source.status = "in-progress"
                        => added.status = "in-progress"
                  /\ tasks'[from][getDateKey] = splice(rendered(from), i)
                  /\ sameDatedExcept(tasks, tasks', {<<from, getDateKey>>})
      ]_vars

\* the pool holds a task in progress and a task that is pending, both
\* undated, and the dated buckets they were added to are empty
C33_Witness ==
    /\ Len(tasks.pool) = 2
    /\ tasks.pool[1].status = "in-progress"
    /\ tasks.pool[2].status = "pending"
    /\ \A i \in 1..2 : tasks.pool[i].originalDate = Null
    /\ \E c \in DatedCategories, d \in Days :
          hasBucket(tasks, c, d) /\ tasks[c][d] = <<>>
    /\ \A c \in DatedCategories : \A d \in DOMAIN tasks[c] : tasks[c][d] = <<>>

(***************************************************************************)
(* C34: the drop of a pool task on the previous-day or next-day button     *)
(* targets personal: it appends exactly one task to personal[viewed date   *)
(* +/- 1 day], with an id no task had before, moved = false, originalDate  *)
(* equal to the key of that date and the status and text of the source,    *)
(* and the source is no longer in the pool; work is unchanged.             *)
(***************************************************************************)
C34_PoolTaskToAdjacentDate ==
    [][ \A id \in Ids, daysOffset \in Offsets :
          LET i == findIndex(tasks.pool, id)
              targetDate == setDate(currentDate, daysOffset)
              key == formatDateKey(targetDate)
          IN  ( /\ i # 0
                /\ movePoolTaskToSpecificDate(id, targetDate)
                /\ UNCHANGED rest )
              =>
              LET source == tasks.pool[i]
                  dest == tasks'.personal[key]
                  added == dest[Len(dest)]
              IN  /\ hasBucket(tasks', "personal", key)
                  /\ dest = Append(bucketOrEmpty(tasks, "personal", key),
                                   added)
                  /\ ~holds(tasks, added.id)
                  /\ added.moved = FALSE
                  /\ added.originalDate = key
                  /\ added.status = source.status
                  /\ added.text = source.text
                  /\ tasks'.pool = splice(tasks.pool, i)
                  /\ tasks'.work = tasks.work
                  /\ sameDatedExcept(tasks, tasks', {<<"personal", key>>})
      ]_vars

\* an invocation of the handler behind button b has passed its credential
\* test and has not reached the end of its finally block
outstanding(b) ==
    \E f \in Flows : flows[f].kind = b /\ flows[f].pc \notin {"idle", "done"}

\* C35: the busy indicator of a sync action is shown in every state in
\* which at least one invocation of that action is outstanding, two
\* overlapping invocations included, and it is cleared once none is
\* outstanding, whether the invocations succeeded or failed
C35_BusyWhileOutstanding ==
    \A b \in Buttons : busy[b] <=> outstanding(b)

\* task id taskId is in a backup document of credential tok
heldRemotely(docs, tok, taskId) ==
    \E i \in 1..Len(docs) :
        /\ docs[i].owner = tok
        /\ docs[i].description = Sentinel
        /\ docs[i].file.kind = "json"
        /\ holds(docs[i].file.data, taskId)

\* C36: a sync flow never loses remote tasks: when the flow, the only one
\* that has run, has its write accepted by the service, every task that
\* is in the backup documents of the credential is in the content it
\* publishes, whatever became of its Fetch
C36_SyncKeepsRemoteTasks ==
    [][ \A f \in Flows :
          ( /\ flows[f].kind = "sync"
            /\ flows[f].pc \in {"patch", "post"}
            /\ flows[f].req = "sent"
            /\ flows'[f].req = "ok"
            /\ \A g \in Flows \ {f} : flows[g].pc = "idle" )
          => \A id \in Ids :
                heldRemotely(gists, flows[f].tok, id)
                    => holds(flows[f].body.data, id) ]_vars

\* no two places of the collection hold tasks with the same id
uniqueIds(T) ==
    \A s, t \in slots(T) : s # t => taskAt(T, s).id # taskAt(T, t).id

\* C37: merge preserves collection-wide id uniqueness: when the ids of the
\* local collection are pairwise distinct across all its buckets, and so
\* are those of the remote snapshot, no two tasks of the local collection
\* share an id after mergeTaskData, an id that sits in different buckets
\* locally and remotely included
C37_MergeKeepsIdsUnique ==
    [][ ( /\ merges' = merges + 1
          /\ uniqueIds(tasks)
          /\ uniqueIds(cloudData) )
        => uniqueIds(tasks') ]_vars

\* the file of document id, noFile when the remote holds no such document
remoteFile(docs, id) ==
    IF docIndex(docs, id) = 0 THEN noFile ELSE docs[docIndex(docs, id)].file

\* every bucket of T is the beginning of the same bucket of U
keptIn(T, U) ==
    /\ \A c \in DatedCategories :
          \A d \in DOMAIN T[c] :
              d \in DOMAIN U[c] /\ isPrefix(T[c][d], U[c][d])
    /\ isPrefix(T.pool, U.pool)

\* C38: when a sync or push flow reports success, the content of the
\* remote document equals the local collection at that moment, provided no
\* lifecycle operation ran while the flow was outstanding; a lifecycle
\* mutation committed while the Fetch is outstanding is kept by the merge
\* and is in the published content
C38_SuccessMeansRemoteIsLocal ==
    [][ \A f \in Flows :
          /\ \* the flow reports success
             ( /\ flows[f].kind \in {"sync", "push"}
               /\ flows[f].pc # "done"
               /\ flows'[f].pc = "done"
               /\ flows'[f].note = "success"
               /\ ~occurs(flows[f].edits, "publish") )
             => remoteFile(gists', flows[f].resp.id) = stringify(tasks')
          /\ \* the merge of a sync flow
             ( /\ flows[f].kind = "sync"
               /\ flows[f].fetch = "none"
               /\ flows'[f].fetch = "ok" )
             => keptIn(tasks, tasks') ]_vars

\* C39: a successful pull ends with the in-memory collection and the
\* persisted snapshot equal to the fetched remote snapshot even when
\* lifecycle operations were committed while the Fetch was outstanding:
\* the tasks they added are discarded, not merged
C39_PullDiscardsInterleavedEdits ==
    [][ \A f \in Flows :
          ( /\ flows[f].kind = "pull"
            /\ occurs(flows[f].edits, "fetch")
            /\ flows[f].pc # "done"
            /\ flows'[f].pc = "done"
            /\ flows'[f].note = "success" )
          => /\ tasks' = flows[f].resp.file.data
             /\ stored' = saveTasks(flows[f].resp.file.data) ]_vars

\* a pull that ran alone has succeeded; a task was added while its Fetch
\* was outstanding, and the collection and the slot hold the remote task
\* only
C39_Witness ==
    /\ flows[1].kind = "pull"
    /\ flows[1].note = "success"
    /\ flows[1].edits = <<"fetch">>
    /\ flows[2].pc = "idle"
    /\ tasks = cloudCollection
    /\ stored = saveTasks(cloudCollection)
    /\ gists = << backup(1, stringify(cloudCollection)) >>

(***************************************************************************)
(* Specification of the credential: the calls of the engine with two       *)
(* credentials, one replacing the other through the settings dialog.  The  *)
(* identifier cached at the start, if any, is that of a backup of the      *)
(* credential stored with it.                                              *)
(***************************************************************************)
MaxCredentials == 2

Credentials == 1..MaxCredentials

\* document id of docs exists and is owned by credential tok
belongs(docs, id, tok) ==
    \E i \in 1..Len(docs) : docs[i].id = id /\ docs[i].owner = tok

\* no document; a backup of credential 1; a backup of each credential
owned ==
    { <<>>,
      << backup(1, stringify(cloudCollection)) >>,
      << backup(1, stringify(cloudCollection)),
         document(2, 2, Sentinel, stringify(localCollection)) >> }

InitCredential ==
    /\ tasks = localCollection
    /\ stored = saveTasks(tasks)
    /\ tz = 0
    /\ currentDate = localMidnight(Today)
    /\ now = 1
    /\ thrown = FALSE
    /\ cloudData = emptyCollection
    /\ merges = 0
    /\ gists \in owned
    /\ token \in {Null} \cup Credentials
    /\ gistId \in {Null} \cup { id \in GistIds : belongs(gists, id, token) }
    /\ flows = [f \in Flows |-> idleFlow]
    /\ busy = [b \in Buttons |-> FALSE]

\* saveGitHubToken with a token that passes its tests
SaveGitHubToken == \E t \in Credentials : token # t /\ setToken(t)

NextCredential ==
    \/ StartCall
    \/ ReplyToFlow
    \/ FailFlow
    \/ ResumeFlow
    \/ SaveGitHubToken
    \/ ClearToken

SpecCredential == InitCredential /\ [][NextCredential]_vars

\* C40: the cached remote document identifier always belongs to the
\* current credential: it is set only by a successful Locate or by a
\* Publish that created a document under the current credential, it is
\* cleared when the credential is cleared, and after the credential is
\* replaced by a different one Fetch and Publish never use an identifier
\* cached under the previous credential
C40_CachedIdBelongsToCredential ==
    /\ [](gistId # Null => belongs(gists, gistId, token))
    /\ [](\A f \in Flows :
            (flows[f].req = "sent" /\ flows[f].pc \in {"get", "patch"})
                => belongs(gists, flows[f].target, flows[f].tok))
    /\ [][ /\ (gistId' # gistId /\ gistId' # Null) =>
                \E f \in Flows :
                    /\ flows[f].pc \in {"list", "post"}
                    /\ flows[f].req = "ok"
                    /\ flows[f].resp.id = gistId'
                    /\ flows[f].tok = token
           /\ (token # Null /\ token' = Null) => gistId' = Null ]_vars

====
